---- MODULE Spec2Model ----
(***************************************************************************)
(* A model of the on-chain discovery engine of alphalend-supply:           *)
(*   - the JSON-RPC client (SuiClient._call),                              *)
(*   - the container pagination walker (enumerate_dynamic_objects /        *)
(*     enumerate_markets),                                                 *)
(*   - the three type-marker matchers,                                     *)
(*   - the three amount-field harvesters.                                  *)
(* Strings are sequences of tokens, so that "in", startswith and "+" are   *)
(* computed and not assumed.  JSON values are records with a tag.          *)
(***************************************************************************)
EXTENDS Integers, Sequences, FiniteSets, TLC

VARIABLES
    srv,        \* the node: srv[p] is the number of children on page p
    pc,         \* the walker's position: list, child, done, failed, crashed, reported
    cursor,     \* enumerate_*: cursor
    page,       \* enumerate_*: page (the result of the last list call)
    idx,        \* enumerate_*: position of "for entry in data"
    results,    \* enumerate_*: results
    listLog,    \* every suix_getDynamicFields request sent, with the kind of its answer
    resolvedOk, \* the names the node resolved to a non-empty object, in order
    failedNames,\* the names whose suix_getDynamicFieldObject call failed
    nVisited,   \* how many child descriptors the walker has gone through
    raised,     \* the exception that left the walker, if any
    report,     \* what the query returned to its caller
    requestId,  \* SuiClient._request_id
    callMethod, \* the method of the last _call
    callResp,   \* what the HTTP exchange of the last _call gave
    callOut,    \* what the last _call returned or raised
    phase,      \* position of a matcher or harvester run: idle, input, matched, harvested
    content,    \* the object content handed to a matcher or a harvester
    found,      \* the matchers' results
    amounts,    \* the harvesters' results
    apc,        \* query_alphalend_tbtc: position in the chain of external sources
    price_usd,  \* query_alphalend_tbtc: price_usd
    circ,       \* query_alphalend_tbtc: circ
    total,      \* query_alphalend_tbtc: total
    used_source,\* query_alphalend_tbtc: used_source
    responses,  \* what each source read without an exception gave, in order
    hasKey,     \* whether BLOCKBERRY_API_KEY is set
    requests,   \* the sources an HTTP request was sent to, in order
    lastError,  \* the error of the last failed fetch attempt
    tbtc_global,\* result["tbtc_global"]
    fpc,        \* query_alphafi_tbtc / query_bucket_tbtc: position from allow_fallback on
    program,    \* which of the two queries runs
    retries,    \* fetch_blockberry_tbtc: retries
    attempt,    \* fetch_blockberry_tbtc: attempt
    sleeps,     \* the seconds of every time.sleep, in order
    bb,         \* what fetch_blockberry_tbtc returned or raised
    onchain,    \* the entries and totals the query built from the chain
    qresult,    \* what the query returned or raised
    hphase,     \* humanize_amount: "input" before it is applied, then "humanized"
    amount,     \* humanize_amount: amount
    decimals,   \* humanize_amount: decimals
    human,      \* humanize_amount: the string returned, as its characters
    human8,     \* the *_human8 strings the reports hold for the same amount
    dpc,        \* fetch_tbtc_data: position
    owner,      \* fetch_tbtc_data: whether an owner was given
    allow_fallback, \* fetch_tbtc_data: allow_fallback
    total_supply,   \* fetch_tbtc_data: total_supply, None or a number
    tbtc_data,  \* what fetch_tbtc_data returned or raised
    answers,    \* what the node answered to each call of fetch_tbtc_data
    bpc,        \* query_bucket_tbtc and its entry points: position
    entry_point,\* "cli" (main) or "http" (get_bucket_tbtc)
    arg_vals,   \* the values of --parent-id, or the parent_id parameter
    parent_ids, \* the list handed to query_bucket_tbtc
    chain,      \* per container id, the amounts of its matched objects, in order
    scan,       \* the index in parent_ids of the container being scanned
    all_entries,\* query_bucket_tbtc: all_entries
    total_locked_raw \* query_bucket_tbtc: total_locked_raw

vars == <<srv, pc, cursor, page, idx, results, listLog, resolvedOk, failedNames,
          nVisited, raised, report, requestId, callMethod, callResp, callOut,
          phase, content, found, amounts,
          apc, price_usd, circ, total, used_source, responses,
          hasKey, requests, lastError, tbtc_global,
          fpc, program, retries, attempt, sleeps, bb, onchain, qresult,
          hphase, amount, decimals, human, human8,
          dpc, owner, allow_fallback, total_supply, tbtc_data, answers,
          bpc, entry_point, arg_vals, parent_ids, chain, scan, all_entries,
          total_locked_raw>>

walkerVars == <<srv, pc, cursor, page, idx, results, listLog, resolvedOk,
                failedNames, nVisited, raised, report>>
clientVars == <<requestId, callMethod, callResp, callOut>>
pureVars == <<phase, content, found, amounts>>
aggVars == <<apc, price_usd, circ, total, used_source, responses>>
sourceVars == <<hasKey, requests, lastError, tbtc_global>>
fetchVars == <<fpc, program, retries, attempt, sleeps, bb, onchain, qresult>>
humanVars == <<hphase, amount, decimals, human>>
dataVars == <<dpc, owner, allow_fallback, total_supply, tbtc_data, answers>>
bucketVars == <<bpc, entry_point, arg_vals, parent_ids, chain, scan, all_entries,
                total_locked_raw>>
queryVars == <<human8, dataVars, bucketVars>>
externalVars == <<aggVars, sourceVars, fetchVars, humanVars, queryVars>>

(***************************************************************************)
(* Bounds of the model.                                                    *)
(***************************************************************************)
MaxPages == 2
MaxChildren == 2
MaxCalls == 3
MaxNodes == 3
MaxDeepNodes == 5
MaxAmountNodes == 3
MaxDeepAmountNodes == 5

(***************************************************************************)
(* The JSON-RPC client.                                                    *)
(***************************************************************************)
PageLimit == 50

NullCursor == [null |-> TRUE, at |-> 0]
CursorOf(k) == [null |-> FALSE, at |-> k]

ChildName(p, i) == [p |-> p, i |-> i]
NoName == [p |-> 0, i |-> 0]

\* A dynamic-field object: {} or a non-empty mapping.
EmptyObj == [empty |-> TRUE, objectId |-> NoName]
ObjOf(name) == [empty |-> FALSE, objectId |-> name]

\* A JSON "result" value.  isNull: the value is null (or the key is absent);
\* hasData, hasCursor, hasHasNext: the mapping holds the key.
NoneResult ==
    [isNull |-> TRUE, hasData |-> FALSE, data |-> <<>>, obj |-> EmptyObj,
     hasCursor |-> FALSE, nextCursor |-> NullCursor,
     hasHasNext |-> FALSE, hasNextPage |-> FALSE]

PageResult(data, next, more) ==
    [isNull |-> FALSE, hasData |-> TRUE, data |-> data, obj |-> EmptyObj,
     hasCursor |-> TRUE, nextCursor |-> next,
     hasHasNext |-> TRUE, hasNextPage |-> more]

ObjectResult(obj) ==
    [isNull |-> FALSE, hasData |-> TRUE, data |-> <<>>, obj |-> obj,
     hasCursor |-> FALSE, nextCursor |-> NullCursor,
     hasHasNext |-> FALSE, hasNextPage |-> FALSE]

EmptyMappingResult == [NoneResult EXCEPT !.isNull = FALSE]

\* What the HTTP exchange gives: an exception of urllib / json, or a decoded
\* JSON object with or without the keys "error" and "result".
ErrPayloads == {"E1", "E2"}
NoPayload == "none"

TransportFaults == {"HTTPError", "URLError", "JSONDecodeError"}

Fault(t) ==
    [t |-> t, hasError |-> FALSE, error |-> NoPayload,
     hasResult |-> FALSE, result |-> NoneResult]
JsonResult(r) ==
    [t |-> "json", hasError |-> FALSE, error |-> NoPayload,
     hasResult |-> TRUE, result |-> r]
JsonError(e) ==
    [t |-> "json", hasError |-> TRUE, error |-> e,
     hasResult |-> FALSE, result |-> NoneResult]
JsonErrorAndResult(e, r) ==
    [t |-> "json", hasError |-> TRUE, error |-> e,
     hasResult |-> TRUE, result |-> r]
JsonNeither ==
    [t |-> "json", hasError |-> FALSE, error |-> NoPayload,
     hasResult |-> FALSE, result |-> NoneResult]

\* The outcome of _call: a returned value or a raised SuiRPCError.
Returned(v) == [kind |-> "return", value |-> v, error |-> NoPayload]
Raised(e) == [kind |-> "SuiRPCError", value |-> NoneResult, error |-> e]

\* A mutant of _call that looks at "result" before "error".
CallResultFirst(resp) ==
    IF resp.t \in TransportFaults THEN Raised(resp.t)
    ELSE IF resp.hasResult THEN Returned(resp.result)
    ELSE IF resp.hasError THEN Raised(resp.error)
    ELSE Returned(NoneResult)

\* SuiClient._call, after the request was sent.
Call(resp) ==
    IF resp.t \in TransportFaults THEN Raised(resp.t)
    ELSE IF resp.hasError THEN Raised(resp.error)
    ELSE IF resp.hasResult THEN Returned(resp.result)
    ELSE Returned(NoneResult)

(***************************************************************************)
(* The node, as the walker sees it.  An honest node serves page            *)
(* PageAt(cursor) of its Len(srv) pages; each answer may instead be a      *)
(* transport fault, a protocol error or a malformed result.                *)
(***************************************************************************)
ServerShapes == UNION {[1..n -> 0..MaxChildren] : n \in 1..MaxPages}

NumPages == Len(srv)
PageAt(c) == IF c.null THEN 1 ELSE c.at + 1

Descriptors(p, named) ==
    [i \in 1..srv[p] |-> [named |-> named[i], name |-> ChildName(p, i)]]

HonestPage(c, named) ==
    LET p == PageAt(c)
    IN  IF p > NumPages THEN PageResult(<<>>, NullCursor, FALSE)
        ELSE PageResult(Descriptors(p, named), CursorOf(p), p < NumPages)

AllNamed(c) ==
    [i \in 1..(IF PageAt(c) > NumPages THEN 0 ELSE srv[PageAt(c)]) |-> TRUE]

NamedChoices(c) ==
    [1..(IF PageAt(c) > NumPages THEN 0 ELSE srv[PageAt(c)]) -> BOOLEAN]

\* The answers to suix_getDynamicFields(parent, cursor, limit).
ListResponses(c) ==
    {JsonResult(HonestPage(c, named)) : named \in NamedChoices(c)}
    \cup {Fault(t) : t \in TransportFaults}
    \cup {JsonError(e) : e \in ErrPayloads}
    \cup {JsonErrorAndResult(e, HonestPage(c, AllNamed(c))) : e \in ErrPayloads}
    \cup {JsonNeither}
    \cup {JsonResult([HonestPage(c, AllNamed(c)) EXCEPT !.hasData = FALSE, !.data = <<>>])}
    \cup {JsonResult([HonestPage(c, AllNamed(c)) EXCEPT !.hasHasNext = FALSE])}

\* The answers to suix_getDynamicFieldObject(parent, name).
ResolveResponses(name) ==
    {JsonResult(ObjectResult(ObjOf(name))), JsonResult(ObjectResult(EmptyObj)),
     JsonResult(EmptyMappingResult), JsonResult(NoneResult), JsonNeither}
    \cup {Fault(t) : t \in TransportFaults}
    \cup {JsonError(e) : e \in ErrPayloads}
    \cup {JsonErrorAndResult(e, ObjectResult(ObjOf(name))) : e \in ErrPayloads}

(***************************************************************************)
(* enumerate_dynamic_objects / enumerate_markets.                          *)
(***************************************************************************)
\* page.get("data", [])
PageData(pg) == IF pg.hasData THEN pg.data ELSE <<>>

\* page.get("nextCursor")
PageNextCursor(pg) == IF pg.hasCursor THEN pg.nextCursor ELSE NullCursor

\* A mutant of the loop exit: stop after the first page.
IsLastPageAlways(pg) == TRUE

\* not page.get("hasNextPage")
IsLastPage(pg) == ~(pg.hasHasNext /\ pg.hasNextPage)

\* (dfo or {}).get("data") or {}
DataOrEmpty(dfo) == IF dfo.isNull \/ ~dfo.hasData THEN EmptyObj ELSE dfo.obj

\* A mutant of the list call's failure: the walker swallows the error and
\* returns what it has.
AfterListSwallow(out) ==
    IF out.kind = "SuiRPCError" THEN "done"
    ELSE IF out.value.isNull THEN "crashed"
    ELSE "child"

\* Where the walker is after the list call returned or raised: the
\* SuiRPCError is not caught in the loop, and page.get on None raises
\* AttributeError.
AfterList(out) ==
    IF out.kind = "SuiRPCError" THEN "failed"
    ELSE IF out.value.isNull THEN "crashed"
    ELSE "child"

\* A mutant of the per-child try: the SuiRPCError is not caught.
AfterResolveUncaught(out) ==
    IF out.kind = "SuiRPCError" THEN "failed" ELSE "child"

\* Where the walker is after the resolve call: "except SuiRPCError: continue".
AfterResolve(out) == "child"

NoReport == [present |-> FALSE, objects_found |-> 0]
NoException == [kind |-> "none", error |-> NoPayload]

\* The shape of an answer to the list call, for the log.
ListShape(resp) ==
    IF resp.t \in TransportFaults THEN "transport"
    ELSE IF resp.hasError THEN "error"
    ELSE IF ~resp.hasResult \/ resp.result.isNull THEN "noresult"
    ELSE IF ~resp.result.hasData THEN "nodata"
    ELSE IF ~resp.result.hasHasNext THEN "nohasnext"
    ELSE "page"

\* The node resolved the child: an error-free JSON object whose result
\* holds a non-empty "data".
ResolvedByNode(resp) ==
    /\ resp.t = "json"
    /\ ~resp.hasError
    /\ resp.hasResult
    /\ ~resp.result.isNull
    /\ resp.result.hasData
    /\ ~resp.result.obj.empty

\* The resolve call failed: a transport fault or a node error.
ResolveFailed(resp) == resp.t \in TransportFaults \/ resp.hasError

ListChildren ==
    /\ pc = "list"
    /\ \E resp \in ListResponses(cursor) :
         LET out == Call(resp)
         IN  /\ listLog' = Append(listLog,
                    [cursor |-> cursor, limit |-> PageLimit,
                     shape |-> ListShape(resp),
                     error |-> IF resp.t \in TransportFaults THEN resp.t
                               ELSE resp.error])
             /\ pc' = AfterList(out)
             /\ raised' = IF AfterList(out) = "failed"
                             THEN [kind |-> out.kind, error |-> out.error]
                          ELSE IF AfterList(out) = "crashed"
                             THEN [kind |-> "AttributeError", error |-> NoPayload]
                          ELSE raised
             /\ IF AfterList(out) = "child"
                   THEN page' = out.value /\ idx' = 1
                   ELSE UNCHANGED <<page, idx>>
    /\ UNCHANGED <<srv, cursor, results, resolvedOk, failedNames, nVisited, report>>
    /\ UNCHANGED clientVars
    /\ UNCHANGED pureVars
    /\ UNCHANGED externalVars

\* "if name is None: continue"
SkipUnnamed ==
    /\ pc = "child"
    /\ idx <= Len(PageData(page))
    /\ ~PageData(page)[idx].named
    /\ idx' = idx + 1
    /\ nVisited' = nVisited + 1
    /\ UNCHANGED <<srv, pc, cursor, page, results, listLog, resolvedOk,
                   failedNames, raised, report>>
    /\ UNCHANGED clientVars
    /\ UNCHANGED pureVars
    /\ UNCHANGED externalVars

ResolveChild ==
    /\ pc = "child"
    /\ idx <= Len(PageData(page))
    /\ PageData(page)[idx].named
    /\ LET name == PageData(page)[idx].name
       IN  \E resp \in ResolveResponses(name) :
             LET out == Call(resp)
                 obj == IF out.kind = "return" THEN DataOrEmpty(out.value) ELSE EmptyObj
             IN  /\ resolvedOk' = IF ResolvedByNode(resp)
                                     THEN Append(resolvedOk, name) ELSE resolvedOk
                 /\ failedNames' = IF ResolveFailed(resp)
                                      THEN failedNames \cup {name} ELSE failedNames
                 /\ results' = IF out.kind = "return" /\ ~obj.empty
                                  THEN Append(results, [name |-> name, object |-> obj])
                                  ELSE results
                 /\ pc' = AfterResolve(out)
                 /\ raised' = IF AfterResolve(out) = "failed"
                                 THEN [kind |-> out.kind, error |-> out.error]
                                 ELSE raised
                 /\ idx' = idx + 1
                 /\ nVisited' = nVisited + 1
    /\ UNCHANGED <<srv, cursor, page, listLog, report>>
    /\ UNCHANGED clientVars
    /\ UNCHANGED pureVars
    /\ UNCHANGED externalVars

\* The end of "for entry in data": the cursor moves and the loop ends or goes on.
EndPage ==
    /\ pc = "child"
    /\ idx > Len(PageData(page))
    /\ cursor' = PageNextCursor(page)
    /\ pc' = IF IsLastPage(page) THEN "done" ELSE "list"
    /\ UNCHANGED <<srv, page, idx, results, listLog, resolvedOk, failedNames,
                   nVisited, raised, report>>
    /\ UNCHANGED clientVars
    /\ UNCHANGED pureVars
    /\ UNCHANGED externalVars

\* The query built on the walker returns its report ("objects_found": len(objects)).
Report ==
    /\ pc = "done"
    /\ pc' = "reported"
    /\ report' = [present |-> TRUE, objects_found |-> Len(results)]
    /\ UNCHANGED <<srv, cursor, page, idx, results, listLog, resolvedOk,
                   failedNames, nVisited, raised>>
    /\ UNCHANGED clientVars
    /\ UNCHANGED pureVars
    /\ UNCHANGED externalVars

ClientIdle ==
    /\ requestId = 0
    /\ callMethod = "none"
    /\ callResp = JsonNeither
    /\ callOut = Returned(NoneResult)

PureIdle ==
    /\ phase = "idle"
    /\ content = <<>>
    /\ found = <<>>
    /\ amounts = <<>>

WalkerIdle ==
    /\ srv = <<>>
    /\ pc = "idle"
    /\ cursor = NullCursor
    /\ page = NoneResult
    /\ idx = 1
    /\ results = <<>>
    /\ listLog = <<>>
    /\ resolvedOk = <<>>
    /\ failedNames = {}
    /\ nVisited = 0
    /\ raised = NoException
    /\ report = NoReport

\* a value no source gave (None), and the values a source can give for a
\* field: a number that is zero or one that is not
Null == [src |-> "none", zero |-> FALSE]
NoError == [src |-> "none", attempt |-> 0, of |-> 0, e |-> "none"]
NoSection == [present |-> FALSE, source |-> "none", status |-> "none",
              hasError |-> FALSE, error |-> NoError,
              price_usd |-> Null, circulating_supply |-> Null, total_supply |-> Null]
NoFetch == [kind |-> "none", price |-> Null, circ |-> Null, total |-> Null,
            error |-> NoError]
NoOnchain == [entries |-> 0, locked_total_raw |-> 0]
NoQueryResult == [kind |-> "none", onchain |-> NoOnchain, tvl |-> FALSE]

AggIdle ==
    /\ apc = "idle"
    /\ price_usd = Null
    /\ circ = Null
    /\ total = Null
    /\ used_source = "none"
    /\ responses = <<>>

SourceIdle ==
    /\ hasKey = FALSE
    /\ requests = <<>>
    /\ lastError = NoError
    /\ tbtc_global = NoSection

FetchIdle ==
    /\ fpc = "idle"
    /\ program = "none"
    /\ retries = 0
    /\ attempt = 0
    /\ sleeps = <<>>
    /\ bb = NoFetch
    /\ onchain = NoOnchain
    /\ qresult = NoQueryResult

HumanIdle ==
    /\ hphase = "idle"
    /\ amount = 0
    /\ decimals = 0
    /\ human = <<>>

NoHuman8 == [bucket |-> <<>>, alphalend |-> <<>>, api |-> <<>>]
NoSupply == [isNone |-> TRUE, n |-> 0]
NoData ==
    [kind |-> "none", error |-> "none", total_supply_status |-> "none",
     total_supply_error |-> "none", supply_fallback |-> "none",
     owner_balance |-> FALSE, owner_balance_error |-> "none"]
NoAnswers == [metadata |-> "none", supply |-> "none", fallback |-> "none", balance |-> "none"]

DataIdle ==
    /\ dpc = "idle"
    /\ owner = FALSE
    /\ allow_fallback = FALSE
    /\ total_supply = NoSupply
    /\ tbtc_data = NoData
    /\ answers = NoAnswers

BucketIdle ==
    /\ bpc = "idle"
    /\ entry_point = "none"
    /\ arg_vals = <<>>
    /\ parent_ids = <<>>
    /\ chain = <<>>
    /\ scan = 0
    /\ all_entries = <<>>
    /\ total_locked_raw = 0

QueryIdle == human8 = NoHuman8 /\ DataIdle /\ BucketIdle

ExternalIdle == AggIdle /\ SourceIdle /\ FetchIdle /\ HumanIdle /\ QueryIdle

Init ==
    /\ srv \in ServerShapes
    /\ pc = "list"
    /\ cursor = NullCursor
    /\ page = NoneResult
    /\ idx = 1
    /\ results = <<>>
    /\ listLog = <<>>
    /\ resolvedOk = <<>>
    /\ failedNames = {}
    /\ nVisited = 0
    /\ raised = NoException
    /\ report = NoReport
    /\ ClientIdle
    /\ ExternalIdle
    /\ PureIdle

Next ==
    \/ ListChildren
    \/ SkipUnnamed
    \/ ResolveChild
    \/ EndPage
    \/ Report

Spec == Init /\ [][Next]_vars

(***************************************************************************)
(* The walker's properties.                                                *)
(***************************************************************************)
RECURSIVE SumTo(_, _)
SumTo(f, n) == IF n = 0 THEN 0 ELSE f[n] + SumTo(f, n - 1)

ResultNames == [i \in 1..Len(results) |-> results[i].name]
Returned_ == pc \in {"done", "reported"}

\* Every list call of the run was answered with a well-formed page.
HonestRun == \A k \in 1..Len(listLog) : listLog[k].shape = "page"

\* C1: pagination completeness.  When the node answers every list call with
\* its page (hasNextPage true on pages 1..N-1, false on page N), the walker
\* that has returned has sent exactly N list requests, the first with the
\* null cursor, request k+1 with the nextCursor of page k, all with one page
\* size, has gone through every child descriptor of the N pages and returns
\* exactly the children the node resolved to a non-empty object, in order.
C1_PaginationComplete ==
    (Returned_ /\ HonestRun) =>
        /\ Len(listLog) = NumPages
        /\ listLog[1].cursor = NullCursor
        /\ \A k \in 1..(NumPages - 1) : listLog[k + 1].cursor = CursorOf(k)
        /\ \A k \in 1..Len(listLog) : listLog[k].limit = listLog[1].limit
        /\ nVisited = SumTo(srv, NumPages)
        /\ ResultNames = resolvedOk

C1_Witness ==
    /\ pc = "reported"
    /\ HonestRun
    /\ Len(listLog) = MaxPages
    /\ \E i, j \in 1..Len(results) :
         results[i].name.p = 1 /\ results[j].name.p = MaxPages

\* C2: per-child failure policy.  A child whose resolve call failed is not
\* in the result, the walker has not failed because of it and has gone on to
\* the next descriptor, and what a finished walker returns is exactly the
\* children that did resolve.
C2_ChildFailureSkipped ==
    /\ \A i \in 1..Len(results) : results[i].name \notin failedNames
    /\ (failedNames # {} /\ pc \in {"failed", "crashed"}) =>
           listLog[Len(listLog)].shape \in {"transport", "error", "noresult"}
    /\ Returned_ => ResultNames = resolvedOk
    /\ (Returned_ /\ HonestRun) => nVisited = SumTo(srv, NumPages)

C2_Witness ==
    /\ pc = "reported"
    /\ ChildName(1, 1) \in failedNames
    /\ \E i, j \in 1..Len(results) :
         results[i].name = ChildName(1, 2) /\ results[j].name.p = MaxPages

\* C3: per-page failure policy.  A list call that failed (transport fault or
\* node error) is the last request of the run: the walker is left by a
\* SuiRPCError carrying that failure, nothing more can happen and no report
\* is produced.
ListFailed(k) == listLog[k].shape \in {"transport", "error"}

C3_PageFailureFatal ==
    \A k \in 1..Len(listLog) :
        ListFailed(k) =>
            /\ k = Len(listLog)
            /\ pc = "failed"
            /\ raised = [kind |-> "SuiRPCError", error |-> listLog[k].error]
            /\ ~report.present
            /\ ~ENABLED Next

C3_Witness ==
    /\ pc = "failed"
    /\ Len(listLog) = MaxPages
    /\ ListFailed(Len(listLog))
    /\ Len(results) > 0

\* C5 (as claimed): a list answer that is valid JSON but lacks "result",
\* "data" or "hasNextPage" makes the call fail with SuiRPCError.
ListMalformed(k) == listLog[k].shape \in {"noresult", "nodata", "nohasnext"}

C5_MalformedIsRpcError ==
    \A k \in 1..Len(listLog) :
        ListMalformed(k) => pc = "failed" /\ raised.kind = "SuiRPCError"

(***************************************************************************)
(* The client alone: a sequence of _call, each for any method and with     *)
(* any outcome of the HTTP exchange.                                       *)
(***************************************************************************)
Methods ==
    {"suix_getDynamicFields", "suix_getDynamicFieldObject", "sui_getObject",
     "suix_getCoinMetadata", "suix_getTotalSupply", "suix_getBalance"}

SampleResults ==
    {NoneResult, EmptyMappingResult, ObjectResult(ObjOf(ChildName(1, 1))),
     PageResult(<<>>, NullCursor, FALSE)}

CallResponses ==
    {Fault(t) : t \in TransportFaults}
    \cup {JsonError(e) : e \in ErrPayloads}
    \cup {JsonErrorAndResult(e, r) : e \in ErrPayloads, r \in SampleResults}
    \cup {JsonResult(r) : r \in SampleResults}
    \cup {JsonNeither}

CallStep ==
    /\ requestId < MaxCalls
    /\ requestId' = requestId + 1
    /\ \E m \in Methods, resp \in CallResponses :
         /\ callMethod' = m
         /\ callResp' = resp
         /\ callOut' = Call(resp)
    /\ UNCHANGED walkerVars
    /\ UNCHANGED pureVars
    /\ UNCHANGED externalVars

InitCall ==
    /\ WalkerIdle
    /\ ClientIdle
    /\ ExternalIdle
    /\ PureIdle

NextCall == CallStep

SpecCall == InitCall /\ [][NextCall]_vars

\* C4: a response with a top-level "error" makes _call raise SuiRPCError
\* carrying the node's error payload, for every method and also when a
\* "result" is present beside it; a value is returned only when the response
\* holds no "error".
C4_ErrorFieldAlwaysFatal ==
    requestId > 0 =>
        /\ (callResp.t = "json" /\ callResp.hasError) =>
               callOut = Raised(callResp.error)
        /\ callOut.kind = "return" =>
               /\ callResp.t = "json"
               /\ ~callResp.hasError
               /\ callOut.value = callResp.result

C4_Witness ==
    /\ requestId = MaxCalls
    /\ callMethod = "suix_getTotalSupply"
    /\ callResp.hasError
    /\ callResp.hasResult
    /\ ~callResp.result.isNull
    /\ callOut.kind = "SuiRPCError"
    /\ callOut.error = "E2"

(***************************************************************************)
(* Strings and JSON values.  A string is a sequence of tokens; a value is  *)
(* a record: t is its kind, s the tokens of a string, n the number of an   *)
(* int, c the entries of a mapping (key k, value v, in insertion order) or *)
(* the elements of a sequence (k is "").                                   *)
(***************************************************************************)
TbtcPackage == "77045f1b9f811a7a8fb9ebd085b5b0c55c5cb0d1520ff55f7037f89b5da9f5f1"
TBTC_COIN_TYPE == <<"0x", TbtcPackage, "::TBTC", "::TBTC">>
TBTC_SUFFIX == <<"::TBTC", "::TBTC">>
HexPrefix == <<"0x">>

\* "sub in s"
Contains(s, sub) ==
    \E i \in 1..(Len(s) - Len(sub) + 1) : SubSeq(s, i, i + Len(sub) - 1) = sub

\* s.startswith(pre)
StartsWith(s, pre) == Len(s) >= Len(pre) /\ SubSeq(s, 1, Len(pre)) = pre

Str(s) == [t |-> "str", s |-> s, n |-> 0, c |-> <<>>]
Num(n) == [t |-> "int", s |-> <<>>, n |-> n, c |-> <<>>]
Bool(b) == [t |-> "bool", s |-> <<>>, n |-> IF b THEN 1 ELSE 0, c |-> <<>>]
None == [t |-> "null", s |-> <<>>, n |-> 0, c |-> <<>>]
MapOf(c) == [t |-> "map", s |-> <<>>, n |-> 0, c |-> c]
SeqOf(c) == [t |-> "seq", s |-> <<>>, n |-> 0, c |-> c]
EmptyMap == MapOf(<<>>)
EmptySeq == SeqOf(<<>>)
Entry(k, v) == [k |-> k, v |-> v]

IsStr(v) == v.t = "str"
IsDict(v) == v.t = "map"
IsList(v) == v.t = "seq"

HasKey(d, key) == \E i \in 1..Len(d.c) : d.c[i].k = key
KeyIndex(d, key) == CHOOSE i \in 1..Len(d.c) : d.c[i].k = key

\* d.get(key)
Get(d, key) == IF HasKey(d, key) THEN d.c[KeyIndex(d, key)].v ELSE None

\* bool(v)
Truthy(v) ==
    CASE v.t = "str" -> v.s # <<>>
      [] v.t = "int" -> v.n # 0
      [] v.t = "bool" -> v.n # 0
      [] v.t = "map" -> v.c # <<>>
      [] v.t = "seq" -> v.c # <<>>
      [] OTHER -> FALSE

\* a or b
PyOr(a, b) == IF Truthy(a) THEN a ELSE b

(***************************************************************************)
(* Value trees.  A path is the sequence of child indices that leads from   *)
(* the root to a node.                                                     *)
(***************************************************************************)
IsContainer(v) == v.t \in {"map", "seq"}

RECURSIVE Size(_)
Size(v) == 1 + SumTo([i \in 1..Len(v.c) |-> Size(v.c[i].v)], Len(v.c))

RECURSIVE NodeAt(_, _)
NodeAt(v, path) == IF path = <<>> THEN v ELSE NodeAt(v.c[Head(path)].v, Tail(path))

RECURSIVE Paths(_)
Paths(v) == {<<>>} \cup UNION {{<<i>> \o p : p \in Paths(v.c[i].v)} : i \in 1..Len(v.c)}

\* the tree with one more entry at the end of the container at path
RECURSIVE AddAt(_, _, _)
AddAt(v, path, e) ==
    IF path = <<>> THEN [v EXCEPT !.c = Append(@, e)]
    ELSE [v EXCEPT !.c[Head(path)].v = AddAt(@, Tail(path), e)]

\* the entries that can be added to a container: a mapping has no key twice
Addable(v, keys, leaves) ==
    IF IsDict(v) THEN {Entry(k, l) : k \in {kk \in keys : ~HasKey(v, kk)}, l \in leaves}
    ELSE {Entry("", l) : l \in leaves}

\* every key and every leaf of the tree is one of these
RECURSIVE Over(_, _, _)
Over(v, keys, leaves) ==
    /\ v.c = <<>> => v \in leaves
    /\ \A i \in 1..Len(v.c) :
          /\ IsDict(v) => v.c[i].k \in keys
          /\ Over(v.c[i].v, keys, leaves)

OtherTBTC == <<"0x", "abcd", "::TBTC", "::TBTC">>
BareTBTC == <<TbtcPackage, "::TBTC", "::TBTC">>
WrappedTBTC ==
    <<"0x", "2", "::balance", "::Balance", "<", "0x", TbtcPackage, "::TBTC", "::TBTC", ">">>
SuiType == <<"0x", "2", "::sui", "::SUI">>

(***************************************************************************)
(* The contents the matchers are run on: every tree of at most MaxNodes    *)
(* nodes over MatchKeys and MatchLeaves, and every tree of at most         *)
(* MaxDeepNodes nodes over DeepKeys and DeepLeaves.                        *)
(***************************************************************************)
MatchKeys == {"type", "dataType", "fields", "name", "x"}
MatchLeaves ==
    {Str(TBTC_COIN_TYPE), Str(WrappedTBTC), Str(OtherTBTC), Str(BareTBTC),
     Str(SuiType), Num(7), EmptyMap, EmptySeq}
DeepKeys == {"type", "fields", "name"}
DeepLeaves == {Str(TBTC_COIN_TYPE), Str(OtherTBTC), EmptyMap, EmptySeq}

\* The content gets one more entry, at the end of one of its containers.
Grow(keys, leaves, max, deepKeys, deepLeaves, deepMax) ==
    \E path \in {p \in Paths(content) : IsContainer(NodeAt(content, p))} :
        \/ /\ Size(content) < max
           /\ \E e \in Addable(NodeAt(content, path), keys, leaves) :
                 content' = AddAt(content, path, e)
        \/ /\ Size(content) < deepMax
           /\ Over(content, deepKeys, deepLeaves)
           /\ \E e \in Addable(NodeAt(content, path), deepKeys, deepLeaves) :
                 content' = AddAt(content, path, e)

\* The object on the chain gets one more field or element.
GrowContent ==
    /\ phase = "input"
    /\ Grow(MatchKeys, MatchLeaves, MaxNodes, DeepKeys, DeepLeaves, MaxDeepNodes)
    /\ UNCHANGED <<phase, found, amounts>>
    /\ UNCHANGED walkerVars
    /\ UNCHANGED clientVars
    /\ UNCHANGED externalVars

(***************************************************************************)
(* The matchers.  A result says whether the function returned a match,     *)
(* returned no match or raised; val is the returned string, at the path    *)
(* (child indices from the content) of the node where it matched, visited  *)
(* the nodes the function went through, in order.                          *)
(***************************************************************************)
Hit(val, at) == [kind |-> "hit", val |-> val, at |-> at, visited |-> <<at>>]
Miss(vis) == [kind |-> "none", val |-> <<>>, at |-> <<>>, visited |-> vis]
Raise == [kind |-> "raise", val |-> <<>>, at |-> <<>>, visited |-> <<>>]
After(p, r) == [r EXCEPT !.visited = <<p>> \o r.visited]

\* obj.get("content") or {}
ContentOf(c) == IF Truthy(c) THEN c ELSE EmptyMap

\* A mutant of the queries' argument: the content as it is.
ContentArgUnguarded(c) == c

\* content if isinstance(content, dict) else {}
ContentArg(c) == IF IsDict(c) THEN c ELSE EmptyMap

\* alphalend_tbtc.find_tbtc_in_object_content
RECURSIVE find_tbtc_in_object_content(_, _), FindTbtcValues(_, _, _),
          FindTbtcItems(_, _, _)
find_tbtc_in_object_content(node, path) ==
    IF ~IsDict(node) THEN Raise
    ELSE LET ctype == PyOr(Get(node, "type"), Get(node, "dataType"))
             fields == Get(node, "fields")
         IN  IF IsStr(ctype) /\ Contains(ctype.s, TBTC_COIN_TYPE) THEN Hit(<<>>, path)
             ELSE IF IsDict(fields)
                 THEN IF \E i \in 1..Len(fields.c) :
                              /\ IsStr(fields.c[i].v)
                              /\ Contains(fields.c[i].v.s, TBTC_COIN_TYPE)
                         THEN Hit(<<>>, path)
                         ELSE After(path,
                                 FindTbtcValues(fields.c,
                                     path \o <<KeyIndex(node, "fields")>>, 1))
                 ELSE Miss(<<path>>)

\* "for v in fields.values()", from the i-th value on
FindTbtcValues(kids, fpath, i) ==
    IF i > Len(kids) THEN Miss(<<>>)
    ELSE LET v == kids[i].v
             r == IF IsDict(v) THEN find_tbtc_in_object_content(v, fpath \o <<i>>)
                  ELSE IF IsList(v) THEN FindTbtcItems(v.c, fpath \o <<i>>, 1)
                  ELSE Miss(<<>>)
         IN  IF r.kind # "none" THEN r
             ELSE LET rest == FindTbtcValues(kids, fpath, i + 1)
                  IN  [rest EXCEPT !.visited = r.visited \o rest.visited]

\* "for i in v", from the j-th element on
FindTbtcItems(items, lpath, j) ==
    IF j > Len(items) THEN Miss(<<>>)
    ELSE LET e == items[j].v
             r == IF IsDict(e) THEN find_tbtc_in_object_content(e, lpath \o <<j>>)
                  ELSE Miss(<<>>)
         IN  IF r.kind # "none" THEN r
             ELSE LET rest == FindTbtcItems(items, lpath, j + 1)
                  IN  [rest EXCEPT !.visited = r.visited \o rest.visited]

\* alphafi_tbtc.find_coin_type.walk
RECURSIVE find_coin_type_walk(_, _), CoinTypeWalkEach(_, _, _)
find_coin_type_walk(d, path) ==
    IF IsDict(d)
        THEN LET name == Get(d, "name")
             IN  IF IsStr(name) /\ Contains(name.s, TBTC_SUFFIX)
                     THEN Hit(IF StartsWith(name.s, HexPrefix) THEN name.s
                              ELSE HexPrefix \o name.s, path)
                     ELSE After(path, CoinTypeWalkEach(d.c, path, 1))
    ELSE IF IsList(d) THEN After(path, CoinTypeWalkEach(d.c, path, 1))
    ELSE IF IsStr(d) /\ Contains(d.s, TBTC_COIN_TYPE) THEN Hit(TBTC_COIN_TYPE, path)
    ELSE Miss(<<path>>)

\* "for v in d.values()" and "for i in d", from the i-th on
CoinTypeWalkEach(kids, path, i) ==
    IF i > Len(kids) THEN Miss(<<>>)
    ELSE LET r == find_coin_type_walk(kids[i].v, path \o <<i>>)
         IN  IF r.kind # "none" THEN r
             ELSE LET rest == CoinTypeWalkEach(kids, path, i + 1)
                  IN  [rest EXCEPT !.visited = r.visited \o rest.visited]

\* alphafi_tbtc.find_coin_type
find_coin_type(node) ==
    IF ~IsDict(node) THEN Raise
    ELSE LET t == PyOr(Get(node, "type"), Get(node, "dataType"))
         IN  IF IsStr(t) /\ Contains(t.s, TBTC_COIN_TYPE) THEN Hit(TBTC_COIN_TYPE, <<>>)
             ELSE find_coin_type_walk(node, <<>>)

\* bucket_tbtc.try_find_tbtc.walk
RECURSIVE try_find_tbtc_walk(_, _), TryFindWalkEach(_, _, _)
try_find_tbtc_walk(d, path) ==
    IF IsDict(d) \/ IsList(d) THEN After(path, TryFindWalkEach(d.c, path, 1))
    ELSE IF IsStr(d) /\ (Contains(d.s, TBTC_COIN_TYPE) \/ Contains(d.s, TBTC_SUFFIX))
        THEN Hit(<<>>, path)
    ELSE Miss(<<path>>)

TryFindWalkEach(kids, path, i) ==
    IF i > Len(kids) THEN Miss(<<>>)
    ELSE LET r == try_find_tbtc_walk(kids[i].v, path \o <<i>>)
         IN  IF r.kind # "none" THEN r
             ELSE LET rest == TryFindWalkEach(kids, path, i + 1)
                  IN  [rest EXCEPT !.visited = r.visited \o rest.visited]

\* bucket_tbtc.try_find_tbtc
try_find_tbtc(node) ==
    IF ~IsDict(node) THEN Raise
    ELSE LET t == PyOr(Get(node, "type"), Get(node, "dataType"))
         IN  IF IsStr(t) /\ Contains(t.s, TBTC_COIN_TYPE) THEN Hit(<<>>, <<>>)
             ELSE try_find_tbtc_walk(node, <<>>)

\* The three queries run their matcher on the content of one object.
Match ==
    /\ phase = "input"
    /\ phase' = "matched"
    /\ found' = [al |-> find_tbtc_in_object_content(ContentArg(ContentOf(content)), <<>>),
                 af |-> find_coin_type(ContentArg(ContentOf(content))),
                 bk |-> try_find_tbtc(ContentArg(ContentOf(content)))]
    /\ UNCHANGED <<content, amounts>>
    /\ UNCHANGED walkerVars
    /\ UNCHANGED clientVars
    /\ UNCHANGED externalVars

InitMatch ==
    /\ WalkerIdle
    /\ ClientIdle
    /\ ExternalIdle
    /\ phase = "input"
    /\ content \in MatchLeaves
    /\ found = <<>>
    /\ amounts = <<>>

NextMatch == GrowContent \/ Match

SpecMatch == InitMatch /\ [][NextMatch]_vars

\* the paths of the strings of v that contain sub
StringsWith(v, sub) ==
    {p \in Paths(v) : IsStr(NodeAt(v, p)) /\ Contains(NodeAt(v, p).s, sub)}

\* p is q or an ancestor of q
IsPrefix(p, q) == Len(p) <= Len(q) /\ SubSeq(q, 1, Len(p)) = p

\* C6: matcher positive case.  For every content that holds the marker in
\* exactly one string, at any depth and under any key, and no other string
\* that looks like it, each matcher reports a match, located at the node
\* that holds the marker (for alphalend the mapping returned holds the
\* string as a field, itself or through its "fields").
C6_MarkerAlwaysFound ==
    (/\ phase = "matched"
     /\ IsDict(content)
     /\ Cardinality(StringsWith(content, TBTC_COIN_TYPE)) = 1
     /\ StringsWith(content, TBTC_SUFFIX) = StringsWith(content, TBTC_COIN_TYPE))
    => \A p \in StringsWith(content, TBTC_COIN_TYPE) :
          /\ found.al.kind = "hit"
          /\ IsPrefix(found.al.at, p) /\ Len(p) - Len(found.al.at) <= 2
          /\ found.af.kind = "hit"
          /\ IsPrefix(found.af.at, p) /\ Len(p) - Len(found.af.at) <= 1
          /\ found.bk.kind = "hit"
          /\ IsPrefix(found.bk.at, p) /\ Len(p) - Len(found.bk.at) <= 1

RECURSIVE PreOrder(_, _), PreOrderFrom(_, _, _)
PreOrder(v, path) == <<path>> \o PreOrderFrom(v, path, 1)
PreOrderFrom(v, path, i) ==
    IF i > Len(v.c) THEN <<>>
    ELSE PreOrder(v.c[i].v, path \o <<i>>) \o PreOrderFrom(v, path, i + 1)

\* the place of path p in the pre-order of the content
Rank(p) == LET order == PreOrder(content, <<>>)
           IN  CHOOSE i \in 1..Len(order) : order[i] = p

HasStringWith(v, sub) ==
    \E i \in 1..Len(v.c) : IsStr(v.c[i].v) /\ Contains(v.c[i].v.s, sub)

\* a node that matches by its own type tag or string fields (alphalend: the
\* strings of its "fields")
OwnMatchAL(v) ==
    /\ IsDict(v)
    /\ \/ HasKey(v, "type") /\ IsStr(Get(v, "type"))
          /\ Contains(Get(v, "type").s, TBTC_COIN_TYPE)
       \/ HasKey(v, "dataType") /\ IsStr(Get(v, "dataType"))
          /\ Contains(Get(v, "dataType").s, TBTC_COIN_TYPE)
       \/ IsDict(Get(v, "fields")) /\ HasStringWith(Get(v, "fields"), TBTC_COIN_TYPE)

\* a node that matches by its own strings (alphafi: a name with the suffix
\* too)
OwnMatchAF(v) ==
    /\ IsContainer(v)
    /\ \/ HasStringWith(v, TBTC_COIN_TYPE)
       \/ IsDict(v) /\ IsStr(Get(v, "name")) /\ Contains(Get(v, "name").s, TBTC_SUFFIX)

\* the node a match is located at: a string belongs to the node it is in
Owner(p) == IF IsStr(NodeAt(content, p)) /\ p # <<>> THEN SubSeq(p, 1, Len(p) - 1) ELSE p

\* C8: matcher order and short-circuit.  When several nodes of the content
\* match, the matcher returns the match of the node that comes first in
\* depth-first pre-order, a node's own type tags and string fields being
\* checked before its children, and it visits no node after that one.
C8_FirstMatchInPreOrder ==
    (phase = "matched" /\ IsDict(content))
    => LET al == {p \in Paths(content) : OwnMatchAL(NodeAt(content, p))}
           af == {p \in Paths(content) : OwnMatchAF(NodeAt(content, p))}
       IN  /\ Cardinality(al) >= 2
              => /\ found.al.kind = "hit"
                 /\ \A p \in al : Rank(found.al.at) <= Rank(p)
                 /\ \A i \in 1..Len(found.al.visited) :
                       Rank(found.al.visited[i]) <= Rank(found.al.at)
           /\ Cardinality(af) >= 2
              => /\ found.af.kind = "hit"
                 /\ \A p \in af : Rank(Owner(found.af.at)) <= Rank(p)
                 /\ \A i \in 1..Len(found.af.visited) :
                       Rank(found.af.visited[i]) <= Rank(found.af.at)

(***************************************************************************)
(* The amount harvesters.  The harvested mapping is a function from the    *)
(* names found to integers.                                                *)
(***************************************************************************)
CandidatesAlphaFi ==
    {"balance", "pooled", "pool_balance", "liquidity", "available_liquidity",
     "deposits", "reserves", "total_reserve", "total_liquidity"}
CandidatesBucket ==
    {"collateral", "collateral_amount", "pooled", "pool_balance", "liquidity",
     "available_liquidity", "deposits", "reserves", "total_reserve",
     "total_liquidity", "balance", "amount"}
CandidatesAlphaLend ==
    {"liquidity", "available_liquidity", "pool_balance", "pooled", "total_reserve",
     "total_liquidity", "cash", "deposits", "reserves", "balance"}

Digits == <<"0", "1", "2", "3", "4", "5", "6", "7", "8", "9">>
IsDigit(tok) == \E i \in 1..Len(Digits) : Digits[i] = tok
DigitValue(tok) == (CHOOSE i \in 1..Len(Digits) : Digits[i] = tok) - 1

RECURSIVE DigitsValue(_)
DigitsValue(s) ==
    IF s = <<>> THEN 0
    ELSE 10 * DigitsValue(SubSeq(s, 1, Len(s) - 1)) + DigitValue(s[Len(s)])

\* s.strip()
RECURSIVE Strip(_)
Strip(s) ==
    IF s # <<>> /\ s[1] = " " THEN Strip(Tail(s))
    ELSE IF s # <<>> /\ s[Len(s)] = " " THEN Strip(SubSeq(s, 1, Len(s) - 1))
    ELSE s

\* int(val): the integer of an int or a bool, or of a string of digits with
\* an optional sign, spaces around it and single underscores between digits;
\* anything else raises
IntOf(val) ==
    IF val.t \in {"int", "bool"} THEN [ok |-> TRUE, n |-> val.n]
    ELSE IF val.t = "str"
        THEN LET body == Strip(val.s)
                 signed == body # <<>> /\ body[1] \in {"-", "+"}
                 grouped == IF signed THEN Tail(body) ELSE body
                 digits == SelectSeq(grouped, LAMBDA tok : tok # "_")
             IN  IF /\ grouped # <<>>
                    /\ \A i \in 1..Len(grouped) : IsDigit(grouped[i]) \/ grouped[i] = "_"
                    /\ IsDigit(grouped[1]) /\ IsDigit(grouped[Len(grouped)])
                    /\ \A i \in 1..(Len(grouped) - 1) :
                          ~(grouped[i] = "_" /\ grouped[i + 1] = "_")
                     THEN [ok |-> TRUE,
                           n |-> IF signed /\ body[1] = "-" THEN 0 - DigitsValue(digits)
                                 ELSE DigitsValue(digits)]
                     ELSE [ok |-> FALSE, n |-> 0]
    ELSE [ok |-> FALSE, n |-> 0]

\* out[key] = n
Put(out, key, n) == [x \in (DOMAIN out) \cup {key} |-> IF x = key THEN n ELSE out[x]]

\* A mutant of add_int: a name keeps the first value it got.
add_int_first(out, key, val) ==
    IF IntOf(val).ok /\ key \notin DOMAIN out THEN Put(out, key, IntOf(val).n) ELSE out

\* A mutant of add_int: a failed conversion is not caught, and leaves the
\* harvester as an exception (recorded under a name of its own).
add_int_uncaught(out, key, val) ==
    IF IntOf(val).ok THEN Put(out, key, IntOf(val).n) ELSE Put(out, "<raised>", 0)

\* add_int / add_if_int: out[key] = int(val), a failed conversion is passed over
add_int(out, key, val) == IF IntOf(val).ok THEN Put(out, key, IntOf(val).n) ELSE out

\* A mutant of the test on an entry: a candidate key is never descended.
IsAmountEntryByNameOnly(k, v, cands) == k \in cands

\* k in candidates and isinstance(v, (int, str))
IsAmountEntry(k, v, cands) == k \in cands /\ v.t \in {"int", "bool", "str"}

\* alphafi_tbtc.generic_extract_amounts.walk, bucket_tbtc.extract_amount_like_fields.walk
RECURSIVE amounts_walk(_, _, _), AmountsWalkEach(_, _, _, _)
amounts_walk(d, out, cands) ==
    IF IsDict(d) \/ IsList(d) THEN AmountsWalkEach(d, 1, out, cands) ELSE out

AmountsWalkEach(d, i, out, cands) ==
    IF i > Len(d.c) THEN out
    ELSE LET k == d.c[i].k
             v == d.c[i].v
         IN  AmountsWalkEach(d, i + 1,
                 IF IsDict(d) /\ IsAmountEntry(k, v, cands) THEN add_int(out, k, v)
                 ELSE amounts_walk(v, out, cands),
                 cands)

\* walk(fields if isinstance(fields, dict) else content), for a mapping
AmountsOf(node, cands) ==
    IF IsDict(node)
        THEN amounts_walk(IF IsDict(Get(node, "fields")) THEN Get(node, "fields") ELSE node,
                          <<>>, cands)
        ELSE <<>>

generic_extract_amounts(node) == AmountsOf(node, CandidatesAlphaFi)

extract_amount_like_fields(node) == AmountsOf(node, CandidatesBucket)

\* alphalend_tbtc.extract_reserve_amount_fields.walk
RECURSIVE reserve_walk(_, _), ReserveWalkEach(_, _, _), ReserveWalkItems(_, _, _)
reserve_walk(d, out) == IF ~IsDict(d) THEN out ELSE ReserveWalkEach(d, 1, out)

ReserveWalkEach(d, i, out) ==
    IF i > Len(d.c) THEN out
    ELSE LET k == d.c[i].k
             v == d.c[i].v
         IN  ReserveWalkEach(d, i + 1,
                 IF IsAmountEntry(k, v, CandidatesAlphaLend) THEN add_int(out, k, v)
                 ELSE IF IsDict(v) THEN reserve_walk(v, out)
                 ELSE IF IsList(v) THEN ReserveWalkItems(v, 1, out)
                 ELSE out)

ReserveWalkItems(l, j, out) ==
    IF j > Len(l.c) THEN out
    ELSE ReserveWalkItems(l, j + 1,
             IF IsDict(l.c[j].v) THEN reserve_walk(l.c[j].v, out) ELSE out)

extract_reserve_amount_fields(node) ==
    IF IsDict(node) /\ IsDict(Get(node, "fields"))
        THEN reserve_walk(Get(node, "fields"), <<>>)
        ELSE <<>>

(***************************************************************************)
(* The contents the harvesters are run on: every tree of at most           *)
(* MaxAmountNodes nodes over AmountKeys and AmountLeaves, and every tree   *)
(* of at most MaxDeepAmountNodes nodes over DeepAmountKeys and             *)
(* DeepAmountLeaves.                                                       *)
(***************************************************************************)
AmountKeys == {"fields", "balance", "amount", "x"}
AmountLeaves ==
    {Num(10), Bool(TRUE), Str(<<"2", "0">>), Str(<<" ", "-", "1", "_", "5">>),
     Str(<<"n", "/", "a">>), EmptyMap, EmptySeq}
DeepAmountKeys == {"fields", "balance"}
DeepAmountLeaves == {Num(10), Str(<<"2", "0">>), EmptyMap, EmptySeq}

GrowAmountContent ==
    /\ phase = "input"
    /\ Grow(AmountKeys, AmountLeaves, MaxAmountNodes,
            DeepAmountKeys, DeepAmountLeaves, MaxDeepAmountNodes)
    /\ UNCHANGED <<phase, found, amounts>>
    /\ UNCHANGED walkerVars
    /\ UNCHANGED clientVars
    /\ UNCHANGED externalVars

\* The three harvesters applied to one mapping.  The queries call them on a
\* matched object: alphafi and bucket on its content, alphalend on the
\* mapping its matcher returned.
Harvest ==
    /\ phase = "input"
    /\ phase' = "harvested"
    /\ amounts' = [af |-> generic_extract_amounts(ContentOf(content)),
                   bk |-> extract_amount_like_fields(ContentOf(content)),
                   al |-> extract_reserve_amount_fields(ContentOf(content))]
    /\ UNCHANGED <<content, found>>
    /\ UNCHANGED walkerVars
    /\ UNCHANGED clientVars
    /\ UNCHANGED externalVars

InitHarvest ==
    /\ WalkerIdle
    /\ ClientIdle
    /\ ExternalIdle
    /\ phase = "input"
    /\ content \in AmountLeaves
    /\ found = <<>>
    /\ amounts = <<>>

NextHarvest == GrowAmountContent \/ Harvest

SpecHarvest == InitHarvest /\ [][NextHarvest]_vars

Parent(p) == SubSeq(p, 1, Len(p) - 1)

\* the key of the entry at p, "" for the root and for an element of a sequence
KeyAt(p) == IF p = <<>> THEN "" ELSE NodeAt(content, Parent(p)).c[p[Len(p)]].k

\* the occurrences of a candidate key in the content: the entries of a mapping
\* whose key is a candidate and whose value is an integer or a string that
\* reads as one
Occurrences(cands) ==
    {p \in Paths(content) \ {<<>>} :
        /\ IsDict(NodeAt(content, Parent(p)))
        /\ KeyAt(p) \in cands
        /\ IntOf(NodeAt(content, p)).ok}

\* where a harvest starts: at "fields" when it is a mapping
WalkStart == IF IsDict(Get(content, "fields")) THEN <<KeyIndex(content, "fields")>> ELSE <<>>

\* the occurrences below the start of the harvest
Walked(cands) == {p \in Occurrences(cands) : IsPrefix(WalkStart, p)}

\* p is reached from "fields" through mappings, and through sequences that
\* are held by a mapping and hold the next mapping
ReachedThroughMappings(p) ==
    /\ IsDict(Get(content, "fields"))
    /\ \A n \in Len(WalkStart)..(Len(p) - 1) :
          LET q == SubSeq(p, 1, n)
          IN  \/ IsDict(NodeAt(content, q))
              \/ /\ IsList(NodeAt(content, q))
                 /\ IsDict(NodeAt(content, Parent(q)))

WalkedAs(cands, k) == {p \in Walked(cands) : KeyAt(p) = k}

\* the last of them in traversal order
LastOf(ps) == CHOOSE p \in ps : \A q \in ps : Rank(q) <= Rank(p)

\* C10: harvester last-wins.  When a candidate key occurs at several
\* positions, the value harvested under it is the integer of its last
\* occurrence in traversal order, however many came before.
C10_LastOccurrenceWins ==
    (phase = "harvested" /\ IsDict(content))
    => /\ \A k \in CandidatesAlphaFi :
             WalkedAs(CandidatesAlphaFi, k) # {}
             => /\ k \in DOMAIN amounts.af
                /\ amounts.af[k]
                   = IntOf(NodeAt(content, LastOf(WalkedAs(CandidatesAlphaFi, k)))).n
       /\ \A k \in CandidatesBucket :
             WalkedAs(CandidatesBucket, k) # {}
             => /\ k \in DOMAIN amounts.bk
                /\ amounts.bk[k]
                   = IntOf(NodeAt(content, LastOf(WalkedAs(CandidatesBucket, k)))).n

\* "balance" occurred with 10 and then with "20", and 20 was harvested
C10_Witness ==
    /\ phase = "harvested"
    /\ IsDict(content)
    /\ \E p, q \in WalkedAs(CandidatesAlphaFi, "balance") :
          /\ Rank(p) < Rank(q)
          /\ NodeAt(content, p) = Num(10)
          /\ NodeAt(content, q) = Str(<<"2", "0">>)
          /\ q = LastOf(WalkedAs(CandidatesAlphaFi, "balance"))
    /\ amounts.af["balance"] = 20
    /\ amounts.bk["balance"] = 20

\* what a harvester returned is a mapping from names of cands to integers,
\* each name being a key of the content that holds a value that converts
TotalOver(out, cands) ==
    /\ DOMAIN out \subseteq cands
    /\ \A k \in DOMAIN out :
          /\ out[k] \in Int
          /\ \E p \in Occurrences(cands) :
                KeyAt(p) = k /\ out[k] = IntOf(NodeAt(content, p)).n

\* C11: harvester totality.  For every content, a mapping or not, with
\* candidate keys holding anything, the harvester returns a mapping and does
\* not raise; every key of it is a candidate name that holds a value that
\* converts to an integer somewhere in the content (a value that does not
\* convert adds no entry), and every value is an integer.
C11_HarvesterTotal ==
    phase = "harvested"
    => /\ TotalOver(amounts.af, CandidatesAlphaFi)
       /\ TotalOver(amounts.bk, CandidatesBucket)
       /\ TotalOver(amounts.al, CandidatesAlphaLend)
       /\ ~IsDict(content) => amounts.bk = <<>> /\ amounts.al = <<>>

\* a content whose only candidate key holds a string that is no number was
\* harvested, and nothing was found
C11_Witness ==
    /\ phase = "harvested"
    /\ IsDict(content)
    /\ \E p \in Paths(content) \ {<<>>} :
          /\ KeyAt(p) \in CandidatesBucket \cap CandidatesAlphaLend
          /\ IsStr(NodeAt(content, p))
          /\ ~IntOf(NodeAt(content, p)).ok
          /\ IsPrefix(WalkStart, p)
    /\ amounts.bk = <<>>
    /\ amounts.al = <<>>


\* ---------------------------------------------------------------------
\* query_alphalend_tbtc: the chain of external sources (allow_fallback)
\* ---------------------------------------------------------------------

\* what a source can give for one field: nothing (None), zero, or a number
\* that is not zero
Given(src) == {Null} \cup {[src |-> src, zero |-> z] : z \in BOOLEAN}

Fields(src) ==
    {[kind |-> "fields", price |-> p, circ |-> c, total |-> t, error |-> NoError] :
        p \in Given(src), c \in Given(src), t \in Given(src)}

\* a fetch that raised e, and a body that was read but gives nothing
Failure(src, e) ==
    [kind |-> "raise", price |-> Null, circ |-> Null, total |-> Null,
     error |-> [src |-> src, attempt |-> 1, of |-> 1, e |-> e]]
Nothing(kind) ==
    [kind |-> kind, price |-> Null, circ |-> Null, total |-> Null, error |-> NoError]

FetchErrors == {"transport", "non-json"}

\* fetch_blockberry_tbtc of alphalend_tbtc.py: None without a key, else the
\* body of the response, which the caller uses when it is a non-empty mapping
\* A mutant of SentBlockberry: the request is sent without a key too.
SentAlways(key) == TRUE

\* `if not api_key: return None`, ahead of the request
SentBlockberry(key) == key
BlockberryOutcomes(key) ==
    IF ~SentBlockberry(key) THEN {Nothing("nokey")}
    ELSE {Failure("blockberry", e) : e \in FetchErrors}
         \cup {Nothing("notmapping")} \cup Fields("blockberry")

\* fetch_coingecko_tbtc and the reading of its market_data: the body is not
\* a mapping or market_data is not one ("notmapping"), current_price is
\* neither falsy nor a mapping ("badprice"), or the three fields are read
CoinGeckoOutcomes ==
    {Failure("coingecko", e) : e \in FetchErrors}
    \cup {Nothing("notmapping")}
    \cup {[f EXCEPT !.kind = "badprice", !.price = Null] : f \in Fields("coingecko")}
    \cup Fields("coingecko")

\* fetch_coingecko_markets_tbtc: the first element of the list, or None; an
\* element that is truthy and not a mapping has no .get ("notmapping")
MarketsOutcomes ==
    {Failure("markets", e) : e \in FetchErrors}
    \cup {Nothing("none"), Nothing("notmapping")}
    \cup Fields("markets")

\* fetch_coingecko_simple_price_tbtc: the price as a float, or None
SimplePriceOutcomes ==
    {Failure("simple_price", e) : e \in FetchErrors}
    \cup {Nothing("none")}
    \cup {[kind |-> "fields", price |-> p, circ |-> Null, total |-> Null,
           error |-> NoError] : p \in Given("simple_price") \ {Null}}

\* A mutant of FillIfNone: a later source overrides a filled field.
FillOverride(cur, new) == new

\* `x = new if x is None else x`
FillIfNone(cur, new) == IF cur = Null THEN new ELSE cur

Incomplete(p, c, t) == p = Null \/ c = Null \/ t = Null

\* `if used_source is None: used_source = "coingecko"`
EndOfCoinGecko(us) == IF us = "none" THEN "coingecko" ELSE us

Response(r) == [src |-> IF r.price # Null THEN r.price.src
                        ELSE IF r.circ # Null THEN r.circ.src ELSE r.total.src,
                price |-> r.price, circ |-> r.circ, total |-> r.total]

TryBlockberry ==
    /\ apc = "blockberry"
    /\ \E r \in BlockberryOutcomes(hasKey) :
          /\ requests' = IF SentBlockberry(hasKey)
                         THEN Append(requests, "blockberry") ELSE requests
          /\ lastError' = IF r.kind = "raise" THEN r.error ELSE lastError
          /\ IF r.kind = "fields"
             THEN /\ used_source' = "blockberry"
                  /\ price_usd' = r.price
                  /\ total' = r.total
                  /\ circ' = r.circ
                  /\ responses' = Append(responses, [Response(r) EXCEPT !.src = "blockberry"])
             ELSE UNCHANGED <<used_source, price_usd, total, circ, responses>>
          /\ apc' = IF r.kind # "fields" \/ Incomplete(r.price, r.circ, r.total)
                    THEN "coingecko" ELSE "assemble"
    /\ UNCHANGED <<hasKey, tbtc_global>>
    /\ UNCHANGED fetchVars
    /\ UNCHANGED walkerVars
    /\ UNCHANGED clientVars
    /\ UNCHANGED pureVars
    /\ UNCHANGED humanVars
    /\ UNCHANGED queryVars

TryCoinGecko ==
    /\ apc = "coingecko"
    /\ requests' = Append(requests, "coingecko")
    /\ \E r \in CoinGeckoOutcomes :
          /\ lastError' = IF r.kind = "raise" THEN r.error ELSE lastError
          /\ IF r.kind \in {"raise", "notmapping"} \/ (r.kind = "badprice" /\ price_usd = Null)
             THEN /\ UNCHANGED <<used_source, price_usd, total, circ, responses>>
                  /\ apc' = "assemble"
             ELSE /\ price_usd' = FillIfNone(price_usd, r.price)
                  /\ circ' = FillIfNone(circ, r.circ)
                  /\ total' = FillIfNone(total, r.total)
                  /\ responses' = Append(responses, [Response(r) EXCEPT !.src = "coingecko"])
                  /\ IF Incomplete(price_usd', circ', total')
                     THEN /\ apc' = "markets"
                          /\ UNCHANGED used_source
                     ELSE /\ apc' = "assemble"
                          /\ used_source' = EndOfCoinGecko(used_source)
    /\ UNCHANGED <<hasKey, tbtc_global>>
    /\ UNCHANGED fetchVars
    /\ UNCHANGED walkerVars
    /\ UNCHANGED clientVars
    /\ UNCHANGED pureVars
    /\ UNCHANGED humanVars
    /\ UNCHANGED queryVars

\* A mutant of AskSimplePrice: asked while any field is missing.
AskSimplePriceIfIncomplete(p, c, t) == Incomplete(p, c, t)

\* `if price_usd is None:` after the markets endpoint: the simple price
\* endpoint is asked only while the price is missing
AskSimplePrice(p, c, t) == p = Null

TryMarkets ==
    /\ apc = "markets"
    /\ requests' = Append(requests, "markets")
    /\ \E r \in MarketsOutcomes :
          /\ lastError' = IF r.kind = "raise" THEN r.error ELSE lastError
          /\ IF r.kind = "fields"
             THEN /\ price_usd' = FillIfNone(price_usd, r.price)
                  /\ circ' = FillIfNone(circ, r.circ)
                  /\ total' = FillIfNone(total, r.total)
                  /\ responses' = Append(responses, [Response(r) EXCEPT !.src = "markets"])
             ELSE UNCHANGED <<price_usd, total, circ, responses>>
          /\ IF AskSimplePrice(price_usd', circ', total')
             THEN /\ apc' = "simple_price"
                  /\ UNCHANGED used_source
             ELSE /\ apc' = "assemble"
                  /\ used_source' = EndOfCoinGecko(used_source)
    /\ UNCHANGED <<hasKey, tbtc_global>>
    /\ UNCHANGED fetchVars
    /\ UNCHANGED walkerVars
    /\ UNCHANGED clientVars
    /\ UNCHANGED pureVars
    /\ UNCHANGED humanVars
    /\ UNCHANGED queryVars

TrySimplePrice ==
    /\ apc = "simple_price"
    /\ requests' = Append(requests, "simple_price")
    /\ \E r \in SimplePriceOutcomes :
          /\ lastError' = IF r.kind = "raise" THEN r.error ELSE lastError
          /\ IF r.kind = "fields"
             THEN /\ price_usd' = r.price
                  /\ responses' = Append(responses, [Response(r) EXCEPT !.src = "simple_price"])
             ELSE UNCHANGED <<price_usd, responses>>
    /\ used_source' = EndOfCoinGecko(used_source)
    /\ apc' = "assemble"
    /\ UNCHANGED <<circ, total>>
    /\ UNCHANGED <<hasKey, tbtc_global>>
    /\ UNCHANGED fetchVars
    /\ UNCHANGED walkerVars
    /\ UNCHANGED clientVars
    /\ UNCHANGED pureVars
    /\ UNCHANGED humanVars
    /\ UNCHANGED queryVars

\* result["tbtc_global"]; a key the section does not have reads as Null
Section(us, p, c, t) ==
    IF us # "none" /\ (p # Null \/ c # Null \/ t # Null)
    THEN [present |-> TRUE, source |-> us, status |-> "ok",
          hasError |-> FALSE, error |-> NoError,
          price_usd |-> p, circulating_supply |-> c, total_supply |-> t]
    ELSE [present |-> TRUE, source |-> IF us = "none" THEN "external" ELSE us,
          status |-> "unavailable", hasError |-> FALSE, error |-> NoError,
          price_usd |-> Null, circulating_supply |-> Null, total_supply |-> Null]

AssembleTbtcGlobal ==
    /\ apc = "assemble"
    /\ tbtc_global' = Section(used_source, price_usd, circ, total)
    /\ apc' = "done"
    /\ UNCHANGED <<price_usd, circ, total, used_source, responses>>
    /\ UNCHANGED <<hasKey, requests, lastError>>
    /\ UNCHANGED fetchVars
    /\ UNCHANGED walkerVars
    /\ UNCHANGED clientVars
    /\ UNCHANGED pureVars
    /\ UNCHANGED humanVars
    /\ UNCHANGED queryVars

InitAgg ==
    /\ WalkerIdle
    /\ ClientIdle
    /\ PureIdle
    /\ QueryIdle
    /\ FetchIdle
    /\ HumanIdle
    /\ apc = "blockberry"
    /\ price_usd = Null
    /\ circ = Null
    /\ total = Null
    /\ used_source = "none"
    /\ responses = <<>>
    /\ hasKey \in BOOLEAN
    /\ requests = <<>>
    /\ lastError = NoError
    /\ tbtc_global = NoSection

NextAgg ==
    \/ TryBlockberry
    \/ TryCoinGecko
    \/ TryMarkets
    \/ TrySimplePrice
    \/ AssembleTbtcGlobal

SpecAgg == InitAgg /\ [][NextAgg]_vars

\* the first value a source gave for a field, in the order the sources were
\* read, Null when none gave one
RECURSIVE FirstGiven(_, _)
FirstGiven(rs, f) ==
    IF rs = <<>> THEN Null
    ELSE IF Head(rs)[f] # Null THEN Head(rs)[f] ELSE FirstGiven(Tail(rs), f)

\* C12: fallback precedence. Each of price, circulating supply and total
\* supply holds the value of the first source that gave a non-null one: a
\* later source fills gaps and never changes a filled field. With Blockberry
\* giving the price only and CoinGecko giving all three, the price is
\* Blockberry's and both supplies are CoinGecko's.
C12_FirstSourceWins ==
    /\ price_usd = FirstGiven(responses, "price")
    /\ circ = FirstGiven(responses, "circ")
    /\ total = FirstGiven(responses, "total")

C12_Witness ==
    /\ apc = "done"
    /\ Len(responses) = 2
    /\ responses[1].src = "blockberry"
    /\ responses[1].price # Null /\ responses[1].circ = Null /\ responses[1].total = Null
    /\ responses[2].src = "coingecko"
    /\ responses[2].price # Null /\ responses[2].circ # Null /\ responses[2].total # Null
    /\ responses[2].price # responses[1].price
    /\ tbtc_global.price_usd = responses[1].price
    /\ tbtc_global.circulating_supply = responses[2].circ
    /\ tbtc_global.total_supply = responses[2].total


\* the sources in the order query_alphalend_tbtc asks them
NextSource(src) ==
    CASE src = "blockberry" -> "coingecko"
      [] src = "coingecko" -> "markets"
      [] src = "markets" -> "simple_price"
      [] OTHER -> "none"

Requested(src) == \E i \in DOMAIN requests : requests[i] = src

\* the value of field f once the first i responses are merged
AfterResponse(i, f) == FirstGiven(SubSeq(responses, 1, i), f)

\* response i gave at least one field and left at least one missing
PartialSuccess(i) ==
    /\ responses[i].price # Null \/ responses[i].circ # Null \/ responses[i].total # Null
    /\ Incomplete(AfterResponse(i, "price"), AfterResponse(i, "circ"),
                  AfterResponse(i, "total"))

NoFetchOnceComplete ==
    ~Incomplete(price_usd, circ, total) => requests' = requests

\* C13 as stated: after every partial success that leaves a field missing,
\* the next source of the precedence list is fetched.
C13_NextSourceAlwaysFetched ==
    apc = "done"
    => \A i \in DOMAIN responses :
          PartialSuccess(i) /\ responses[i].src # "simple_price"
          => Requested(NextSource(responses[i].src))

ContinuesWhileIncomplete ==
    apc = "done"
    => \A i \in DOMAIN responses :
          PartialSuccess(i)
          => /\ responses[i].src \in {"blockberry", "coingecko"}
                => Requested(NextSource(responses[i].src))
             /\ responses[i].src = "markets"
                => (Requested("simple_price") <=> AfterResponse(i, "price") = Null)

\* C13: aggregator stop rule. Once all three fields are filled no further
\* source is fetched. After a partial success of Blockberry or of the
\* CoinGecko coin endpoint that leaves a field missing, the next source is
\* fetched; after a partial success of the markets endpoint, the simple price
\* endpoint, which gives the price only, is fetched exactly when the price
\* is still missing.
C13_StopRule == []ContinuesWhileIncomplete /\ [][NoFetchOnceComplete]_vars

C13_Witness ==
    /\ apc = "done"
    /\ requests = <<"blockberry", "coingecko", "markets">>
    /\ \E i \in DOMAIN responses :
          /\ responses[i].src = "markets"
          /\ PartialSuccess(i)
    /\ price_usd # Null
    /\ Incomplete(price_usd, circ, total)


\* ---------------------------------------------------------------------
\* query_alphafi_tbtc and query_bucket_tbtc: fetch_blockberry_tbtc with its
\* retries, and the section the query builds from it
\* ---------------------------------------------------------------------

MaxRetries == 3
MaxEntries == 2

\* the cap of `min(2 ** attempt, 3)`
BackoffCap == 3

Min(a, b) == IF a < b THEN a ELSE b

\* A mutant of Backoff: no cap.
BackoffUncapped(i) == 2 ^ i

\* `time.sleep(min(2 ** attempt, 3))`
Backoff(i) == Min(2 ^ i, BackoffCap)

\* A mutant of Attempts: `range(retries)`.
AttemptsWithoutFirst(R) == R

\* `for attempt in range(retries + 1)`
Attempts(R) == R + 1

Programs == {"alphafi", "bucket"}

\* what the query built from the chain before it turns to Blockberry: the
\* number of tbtc_entries, and for Bucket the locked total
OnchainParts(prog) ==
    {[entries |-> n, locked_total_raw |-> t] : n \in 0..MaxEntries, t \in 0..MaxEntries}
    \cap {o \in [entries : 0..MaxEntries, locked_total_raw : 0..MaxEntries] :
            /\ prog = "alphafi" => o.locked_total_raw = 0
            /\ o.entries = 0 => o.locked_total_raw = 0}

KeyNotSet ==
    [kind |-> "raise", price |-> Null, circ |-> Null, total |-> Null,
     error |-> [src |-> "blockberry", attempt |-> 0, of |-> 0,
                e |-> "BLOCKBERRY_API_KEY is not set"]]

AttemptError(i, R, e) ==
    [src |-> "blockberry", attempt |-> i + 1, of |-> R + 1, e |-> e]

\* the body of a response that was read: any JSON value
Bodies == {Nothing("notmapping")} \cup Fields("blockberry")

\* fetch_blockberry_tbtc up to the loop: the key is looked up first; with
\* retries below zero the loop has no turn and the function returns None
CheckKey ==
    /\ fpc = "fetch"
    /\ IF ~hasKey
       THEN /\ fpc' = "assemble"
            /\ bb' = KeyNotSet
            /\ lastError' = KeyNotSet.error
       ELSE IF 0 < Attempts(retries)
       THEN /\ fpc' = "attempt"
            /\ UNCHANGED <<bb, lastError>>
       ELSE /\ fpc' = "assemble"
            /\ bb' = Nothing("notmapping")
            /\ UNCHANGED lastError
    /\ attempt' = 0
    /\ UNCHANGED <<program, retries, sleeps, onchain, qresult>>
    /\ UNCHANGED <<hasKey, requests, tbtc_global>>
    /\ UNCHANGED aggVars
    /\ UNCHANGED walkerVars
    /\ UNCHANGED clientVars
    /\ UNCHANGED pureVars
    /\ UNCHANGED humanVars
    /\ UNCHANGED queryVars

\* one turn of the loop: the request, then the return of its body, or the
\* except clause with its sleep and continue, or its raise
Attempt ==
    /\ fpc = "attempt"
    /\ attempt < Attempts(retries)
    /\ requests' = Append(requests, "blockberry")
    /\ \/ \E r \in Bodies :
             /\ bb' = r
             /\ fpc' = "assemble"
             /\ UNCHANGED <<attempt, sleeps, lastError>>
       \/ \E e \in FetchErrors :
             /\ lastError' = AttemptError(attempt, retries, e)
             /\ IF attempt < retries
                THEN /\ sleeps' = Append(sleeps, Backoff(attempt))
                     /\ attempt' = attempt + 1
                     /\ IF attempt + 1 < Attempts(retries)
                        THEN /\ fpc' = "attempt"
                             /\ UNCHANGED bb
                        ELSE /\ fpc' = "assemble"
                             /\ bb' = Nothing("notmapping")
                ELSE /\ bb' = [KeyNotSet EXCEPT !.error = lastError']
                     /\ fpc' = "assemble"
                     /\ UNCHANGED <<attempt, sleeps>>
    /\ UNCHANGED <<program, retries, onchain, qresult>>
    /\ UNCHANGED <<hasKey, tbtc_global>>
    /\ UNCHANGED aggVars
    /\ UNCHANGED walkerVars
    /\ UNCHANGED clientVars
    /\ UNCHANGED pureVars
    /\ UNCHANGED humanVars
    /\ UNCHANGED queryVars

NotAMapping == [src |-> "blockberry", attempt |-> 0, of |-> 0, e |-> "no attribute get"]

\* A mutant of Caught: `except RuntimeError`.
CaughtRuntimeErrorOnly(e) == e # NotAMapping

\* `except Exception as e`
Caught(e) == TRUE

Ok(r) ==
    [present |-> TRUE, source |-> "blockberry", status |-> "ok",
     hasError |-> FALSE, error |-> NoError,
     price_usd |-> r.price, circulating_supply |-> r.circ, total_supply |-> r.total]

Unavailable(e) ==
    [present |-> TRUE, source |-> "blockberry", status |-> "unavailable",
     hasError |-> TRUE, error |-> e,
     price_usd |-> Null, circulating_supply |-> Null, total_supply |-> Null]

ReturnedReport(tvl) == [kind |-> "returned", onchain |-> onchain, tvl |-> tvl]
RaisedReport == [kind |-> "raised", onchain |-> NoOnchain, tvl |-> FALSE]

\* the tail of query_alphafi_tbtc: every bb.get is inside the try
AssembleAlphaFi ==
    /\ fpc = "assemble"
    /\ program = "alphafi"
    /\ LET e == IF bb.kind = "raise" THEN bb.error ELSE NotAMapping
       IN  IF bb.kind = "fields"
           THEN /\ tbtc_global' = Ok(bb)
                /\ qresult' = ReturnedReport(FALSE)
                /\ UNCHANGED lastError
           ELSE IF Caught(e)
           THEN /\ tbtc_global' = Unavailable(e)
                /\ qresult' = ReturnedReport(FALSE)
                /\ lastError' = e
           ELSE /\ qresult' = RaisedReport
                /\ lastError' = e
                /\ UNCHANGED tbtc_global
    /\ fpc' = "done"
    /\ UNCHANGED <<program, retries, attempt, sleeps, bb, onchain>>
    /\ UNCHANGED <<hasKey, requests>>
    /\ UNCHANGED aggVars
    /\ UNCHANGED walkerVars
    /\ UNCHANGED clientVars
    /\ UNCHANGED pureVars
    /\ UNCHANGED humanVars
    /\ UNCHANGED queryVars

\* A mutant of HasTvl: the estimate is written whether or not a price was read.
HasTvlAlways(price) == TRUE

\* `if price is not None and total_locked_human8 is not None:`, the total
\* being a number in every run
HasTvl(price) == price # Null

\* the tail of query_bucket_tbtc: a body that is not a mapping sets no
\* section; price stays None unless a mapping was read, and
\* tvl_usd_estimate is added when it is not None
AssembleBucket ==
    /\ fpc = "assemble"
    /\ program = "bucket"
    /\ LET price == IF bb.kind = "fields" THEN bb.price ELSE Null
       IN  IF bb.kind = "fields"
           THEN /\ tbtc_global' = Ok(bb)
                /\ qresult' = ReturnedReport(HasTvl(price))
           ELSE IF bb.kind # "raise"
           THEN /\ qresult' = ReturnedReport(HasTvl(price))
                /\ UNCHANGED tbtc_global
           ELSE IF Caught(bb.error)
           THEN /\ tbtc_global' = Unavailable(bb.error)
                /\ qresult' = ReturnedReport(HasTvl(price))
           ELSE /\ qresult' = RaisedReport
                /\ UNCHANGED tbtc_global
    /\ fpc' = "done"
    /\ UNCHANGED <<program, retries, attempt, sleeps, bb, onchain>>
    /\ UNCHANGED <<hasKey, requests, lastError>>
    /\ UNCHANGED aggVars
    /\ UNCHANGED walkerVars
    /\ UNCHANGED clientVars
    /\ UNCHANGED pureVars
    /\ UNCHANGED humanVars
    /\ UNCHANGED queryVars

InitFetch ==
    /\ WalkerIdle
    /\ ClientIdle
    /\ PureIdle
    /\ QueryIdle
    /\ AggIdle
    /\ HumanIdle
    /\ fpc = "fetch"
    /\ program \in Programs
    /\ retries \in 0..MaxRetries
    /\ attempt = 0
    /\ sleeps = <<>>
    /\ bb = NoFetch
    /\ onchain \in OnchainParts(program)
    /\ qresult = NoQueryResult
    /\ hasKey \in BOOLEAN
    /\ requests = <<>>
    /\ lastError = NoError
    /\ tbtc_global = NoSection

NextFetch ==
    \/ CheckKey
    \/ Attempt
    \/ AssembleAlphaFi
    \/ AssembleBucket

SpecFetch == InitFetch /\ [][NextFetch]_vars

Fetched == fpc \in {"assemble", "done"}

AllAttemptsFailed == Fetched /\ hasKey /\ bb.kind = "raise"

AttemptSucceeded == Fetched /\ hasKey /\ bb.kind # "raise"

AttemptsCounted ==
    /\ Len(requests) <= retries + 1
    /\ fpc = "attempt" => Len(requests) = attempt
    /\ AllAttemptsFailed
       => /\ Len(requests) = retries + 1
          /\ bb.error = AttemptError(retries, retries, bb.error.e)
    /\ AttemptSucceeded
       => /\ Len(requests) = attempt + 1
          /\ Len(sleeps) = attempt
          /\ bb \in Bodies

NothingAfterTheFetch == Fetched => requests' = requests /\ sleeps' = sleeps /\ bb' = bb

\* C14: retry bound. With R retries, a fetch whose every attempt fails makes
\* exactly R+1 requests and then raises the failure of attempt R+1 of R+1; a
\* fetch whose attempt k succeeds has made exactly k requests, all earlier
\* ones failed, and returns the body it read; once the fetch has returned or
\* raised there is no further request and no further sleep.
C14_RetryBound == []AttemptsCounted /\ [][NothingAfterTheFetch]_vars

C14_Witness ==
    /\ fpc = "done"
    /\ retries = MaxRetries
    /\ AllAttemptsFailed
    /\ Len(requests) = MaxRetries + 1
    /\ tbtc_global.status = "unavailable"

\* C15: bounded exponential backoff. The i-th sleep (counted from 0) follows
\* failed attempt i and lasts min(2^i, 3) seconds, never more than the cap;
\* there is one sleep between two attempts and none after the last failed
\* attempt, none after a success and none without a request.
C15_BoundedBackoff ==
    /\ \A i \in DOMAIN sleeps :
          /\ sleeps[i] = Min(2 ^ (i - 1), BackoffCap)
          /\ sleeps[i] <= BackoffCap
    /\ fpc = "attempt" => Len(sleeps) = Len(requests)
    /\ Fetched /\ hasKey => Len(sleeps) = Len(requests) - 1
    /\ ~hasKey => sleeps = <<>>

C15_Witness ==
    /\ AllAttemptsFailed
    /\ retries = 3
    /\ sleeps = <<1, 2, 3>>


\* ---------------------------------------------------------------------
\* the three queries' external sources side by side
\* ---------------------------------------------------------------------

InitExternal == InitAgg \/ InitFetch

NextExternal == NextAgg \/ NextFetch

SpecExternal == InitExternal /\ [][NextExternal]_vars

\* the query is over and every source that was asked raised, none gave a field
EverySourceFailed ==
    \/ /\ apc = "done"
       /\ responses = <<>>
       /\ lastError # NoError
    \/ /\ fpc = "done"
       /\ bb.kind = "raise"

\* C16: when every external source fails without producing any field, the
\* section has status unavailable and records the error of the last failed
\* attempt, for the AlphaLend, AlphaFi and Bucket queries alike.
C16_UnavailableRecordsLastError ==
    EverySourceFailed
    => /\ tbtc_global.present
       /\ tbtc_global.status = "unavailable"
       /\ tbtc_global.hasError
       /\ tbtc_global.error = lastError


FetchFailed == bb.kind \in {"raise", "notmapping"}

\* C17: an external failure never aborts the query. Whatever the Blockberry
\* fetch did (transport error, body that is not JSON, JSON that is not a
\* mapping, retries exhausted, key not set), query_alphafi_tbtc and
\* query_bucket_tbtc return their report, and its on-chain part (entries,
\* totals) is the one built from the chain, the same as after a fetch that
\* succeeded.
C17_ExternalFailureNotFatal ==
    fpc = "done"
    => /\ qresult.kind = "returned"
       /\ qresult.onchain = onchain
       /\ FetchFailed => ~qresult.tvl /\ tbtc_global.status # "ok"

C17_Witness ==
    /\ fpc = "done"
    /\ program = "alphafi"
    /\ bb.kind = "notmapping"
    /\ onchain.entries > 0
    /\ qresult = ReturnedReport(FALSE)
    /\ tbtc_global.status = "unavailable"


\* C18: a missing Blockberry key is a soft skip. No request is sent to
\* Blockberry. In query_alphalend_tbtc the outcome is that of a failed
\* Blockberry fetch: no field filled, no source named, CoinGecko asked next,
\* and the section is assembled. In query_alphafi_tbtc and query_bucket_tbtc
\* the fetch raises before any request or sleep, the section is marked
\* unavailable as after a failed fetch, and the query returns its report.
C18_MissingKeySoftSkip ==
    ~hasKey
    => /\ ~Requested("blockberry")
       /\ apc = "coingecko"
          => /\ price_usd = Null /\ circ = Null /\ total = Null
             /\ used_source = "none"
             /\ responses = <<>>
       /\ apc \in {"markets", "simple_price", "assemble", "done"}
          => /\ Requested("coingecko")
             /\ used_source # "blockberry"
             /\ \A i \in DOMAIN responses : responses[i].src # "blockberry"
       /\ apc = "done" => tbtc_global.present
       /\ Fetched => bb = KeyNotSet /\ requests = <<>> /\ sleeps = <<>>
       /\ fpc = "done"
          => /\ qresult = ReturnedReport(FALSE)
             /\ tbtc_global = Unavailable(KeyNotSet.error)

C18_Witness ==
    /\ ~hasKey
    /\ apc = "done"
    /\ requests = <<"coingecko">>
    /\ tbtc_global.status = "ok"
    /\ tbtc_global.source = "coingecko"


\* ---------------------------------------------------------------------
\* humanize_amount (app.py, alphalend_tbtc.py, alphafi_tbtc.py: the same
\* eight lines in each)
\* ---------------------------------------------------------------------

MaxAmount == 1200
MaxDecimals == 3

\* str(n) of an integer, as its characters
RECURSIVE StrOfNat(_)
StrOfNat(n) ==
    IF n < 10 THEN <<Digits[n + 1]>>
    ELSE StrOfNat(n \div 10) \o <<Digits[(n % 10) + 1]>>
StrOf(n) == IF n < 0 THEN <<"-">> \o StrOfNat(0 - n) ELSE StrOfNat(n)

\* A mutant of rjust: no padding.
rjust_none(s, width, ch) == s

\* s.rjust(width, ch)
RECURSIVE rjust(_, _, _)
rjust(s, width, ch) == IF Len(s) >= width THEN s ELSE rjust(<<ch>> \o s, width, ch)

\* A mutant of rstrip: the zeros at the end stay.
rstrip_none(s, ch) == s

\* s.rstrip(ch)
RECURSIVE rstrip(_, _)
rstrip(s, ch) ==
    IF s # <<>> /\ s[Len(s)] = ch THEN rstrip(SubSeq(s, 1, Len(s) - 1), ch) ELSE s

humanize_amount(a, d) ==
    IF d <= 0 THEN StrOf(a)
    ELSE LET scale == 10 ^ d
             integer == a \div scale
             frac == a % scale
             frac_str == rstrip(rjust(StrOf(frac), d, "0"), "0")
         IN  StrOf(integer) \o (IF frac_str # <<>> THEN <<".">> \o frac_str ELSE <<>>)

Humanize ==
    /\ hphase = "input"
    /\ human' = humanize_amount(amount, decimals)
    /\ hphase' = "humanized"
    /\ UNCHANGED <<amount, decimals>>
    /\ UNCHANGED <<aggVars, sourceVars, fetchVars>>
    /\ UNCHANGED queryVars
    /\ UNCHANGED walkerVars
    /\ UNCHANGED clientVars
    /\ UNCHANGED pureVars

InitHumanize ==
    /\ WalkerIdle
    /\ ClientIdle
    /\ PureIdle
    /\ QueryIdle
    /\ AggIdle
    /\ SourceIdle
    /\ FetchIdle
    /\ hphase = "input"
    /\ amount \in (0 - MaxAmount)..MaxAmount
    /\ decimals \in (0 - 1)..MaxDecimals
    /\ human = <<>>

NextHumanize == Humanize

SpecHumanize == InitHumanize /\ [][NextHumanize]_vars

\* reading a string as a decimal number: an optional minus, digits, and an
\* optional point followed by digits; the number is units / 10^places
PointAt(s) == IF \E i \in DOMAIN s : s[i] = "." THEN CHOOSE i \in DOMAIN s : s[i] = "." ELSE 0
Unsigned(s) == IF s # <<>> /\ s[1] = "-" THEN Tail(s) ELSE s
IntegerPart(s) ==
    IF PointAt(Unsigned(s)) = 0 THEN Unsigned(s)
    ELSE SubSeq(Unsigned(s), 1, PointAt(Unsigned(s)) - 1)
FractionPart(s) ==
    IF PointAt(Unsigned(s)) = 0 THEN <<>>
    ELSE SubSeq(Unsigned(s), PointAt(Unsigned(s)) + 1, Len(Unsigned(s)))
AllDigits(s) == \A i \in DOMAIN s : IsDigit(s[i])
ParseDecimal(s) ==
    [ok |-> IntegerPart(s) # <<>> /\ AllDigits(IntegerPart(s)) /\ AllDigits(FractionPart(s)),
     units |-> (IF s # <<>> /\ s[1] = "-" THEN 0 - 1 ELSE 1)
               * (DigitsValue(IntegerPart(s)) * 10 ^ Len(FractionPart(s))
                  + DigitsValue(FractionPart(s))),
     places |-> Len(FractionPart(s))]

\* C19: humanization round trip. For every amount a >= 0 and decimals d >= 0
\* the string humanize_amount(a, d) reads as a decimal number with at most d
\* places, and that number times 10^d is exactly a.
C19_RoundTrip ==
    hphase = "humanized" /\ amount >= 0 /\ decimals >= 0
    => /\ ParseDecimal(human).ok
       /\ ParseDecimal(human).places <= decimals
       /\ ParseDecimal(human).units * 10 ^ (decimals - ParseDecimal(human).places) = amount

C19_Witness ==
    /\ hphase = "humanized"
    /\ amount = 1005
    /\ decimals = 3
    /\ human = <<"1", ".", "0", "0", "5">>

\* no leading zero, but "0" itself
Canonical(s) == s # <<>> /\ AllDigits(s) /\ (Len(s) > 1 => s[1] # "0")

\* C20: humanizer format. For decimals <= 0 the string is the decimal string
\* of the amount. For decimals d > 0 it is the quotient of the amount by 10^d;
\* when the remainder is 0 nothing follows, otherwise a point follows and then
\* the remainder as d digits with the zeros at the end removed. The string
\* never ends in a point nor in a 0 after a point, and has at most d digits
\* after the point.
C20_Format ==
    hphase = "humanized"
    => LET q == amount \div (10 ^ decimals)
           r == amount % (10 ^ decimals)
           ip == IntegerPart(human)
           fp == FractionPart(human)
           minus == human[1] = "-"
       IN  /\ human # <<>>
           /\ human[Len(human)] # "."
           /\ PointAt(human) # 0 => human[Len(human)] # "0"
           /\ decimals <= 0
              => /\ PointAt(human) = 0
                 /\ Canonical(ip)
                 /\ minus <=> amount < 0
                 /\ DigitsValue(ip) = (IF amount < 0 THEN 0 - amount ELSE amount)
           /\ decimals > 0
              => /\ Canonical(ip)
                 /\ minus <=> q < 0
                 /\ DigitsValue(ip) = (IF q < 0 THEN 0 - q ELSE q)
                 /\ PointAt(human) = 0 <=> r = 0
                 /\ AllDigits(fp)
                 /\ Len(fp) <= decimals
                 /\ DigitsValue(fp) * 10 ^ (decimals - Len(fp)) = r

C20_Witness ==
    /\ hphase = "humanized"
    /\ amount = 1050
    /\ decimals = 3
    /\ human = <<"1", ".", "0", "5">>


\* ---------------------------------------------------------------------
\* the same two queries, BLOCKBERRY_RETRIES being any integer from -1 on
\* ---------------------------------------------------------------------

InitFetchAny ==
    /\ WalkerIdle
    /\ ClientIdle
    /\ PureIdle
    /\ QueryIdle
    /\ AggIdle
    /\ HumanIdle
    /\ fpc = "fetch"
    /\ program \in Programs
    /\ retries \in (0 - 1)..MaxRetries
    /\ attempt = 0
    /\ sleeps = <<>>
    /\ bb = NoFetch
    /\ onchain \in OnchainParts(program)
    /\ qresult = NoQueryResult
    /\ hasKey \in BOOLEAN
    /\ requests = <<>>
    /\ lastError = NoError
    /\ tbtc_global = NoSection

SpecFetchAny == InitFetchAny /\ [][NextFetch]_vars

\* C21: every price/supply section carries a status. When the query is over,
\* the report has the tbtc_global section and its status is ok or
\* unavailable, whatever Blockberry answered (a JSON body that is not an
\* object included) and whatever the retry count (one below zero included).
C21_SectionHasStatus ==
    fpc = "done" /\ qresult.kind = "returned"
    => /\ tbtc_global.present
       /\ tbtc_global.status \in {"ok", "unavailable"}


\* C22: a USD estimate only with a price. The report holds tvl_usd_estimate
\* only when Blockberry was read and gave a price that is not null, and that
\* price is the one of the section; when the price is missing or the fetch
\* failed, the report has no USD estimate.
C22_UsdOnlyWithPrice ==
    fpc = "done"
    => /\ qresult.tvl
          => /\ program = "bucket"
             /\ bb.kind = "fields"
             /\ bb.price # Null
             /\ tbtc_global.status = "ok"
             /\ tbtc_global.price_usd = bb.price
       /\ FetchFailed \/ bb.price = Null => ~qresult.tvl

C22_Witness ==
    /\ fpc = "done"
    /\ program = "bucket"
    /\ bb.kind = "fields"
    /\ bb.price = Null
    /\ bb.total # Null
    /\ onchain.locked_total_raw > 0
    /\ tbtc_global.status = "ok"
    /\ ~qresult.tvl


\* a source was asked and nothing was read from it
SourceFailed(src) ==
    /\ Requested(src)
    /\ \A i \in DOMAIN responses : responses[i].src # src

Later(src) ==
    CASE src = "blockberry" -> {"coingecko", "markets", "simple_price"}
      [] src = "coingecko" -> {"markets", "simple_price"}
      [] src = "markets" -> {"simple_price"}
      [] OTHER -> {}

\* a field the source can provide is missing
CouldFill(src) ==
    IF src = "simple_price" THEN price_usd = Null ELSE Incomplete(price_usd, circ, total)

\* C23: a failed source does not end the fallback chain. When the chain is
\* over and the fetch of Blockberry, of the CoinGecko coin endpoint or of the
\* CoinGecko markets endpoint failed, every later source that can provide a
\* field still missing was fetched.
C23_FailureDoesNotEndChain ==
    apc = "done"
    => \A src \in {"blockberry", "coingecko", "markets"} :
          SourceFailed(src)
          => \A t \in Later(src) : CouldFill(t) => Requested(t)


\* ---------------------------------------------------------------------
\* query_alphafi_tbtc: which objects are listed in tbtc_entries
\* ---------------------------------------------------------------------

\* `if ct == TBTC_COIN_TYPE:`
Listed(ct) == ct.kind = "hit" /\ ct.val = TBTC_COIN_TYPE

\* C28: AlphaFi listing completeness. Every object whose content holds the
\* full TBTC type marker in some string (its type tag, a name field or any
\* nested string) is listed in tbtc_entries, whatever else the content
\* holds, also when a name field visited earlier holds a ::TBTC::TBTC type
\* of another package.
C28_MarkedObjectListed ==
    (/\ phase = "matched"
     /\ IsDict(content)
     /\ StringsWith(content, TBTC_COIN_TYPE) # {})
    => Listed(found.af)

\* C27: a section with status ok has a field. In every report a tbtc_global
\* section with status ok has at least one of price, circulating supply and
\* total supply that is not null; a response that gives none of the three
\* (an empty JSON object, for example) yields status unavailable.
C27_OkHasAField ==
    tbtc_global.present /\ tbtc_global.status = "ok"
    => \/ tbtc_global.price_usd # Null
       \/ tbtc_global.circulating_supply # Null
       \/ tbtc_global.total_supply # Null


\* ---------------------------------------------------------------------
\* the walker against a node that answers every call but is free in what
\* it says about the next page
\* ---------------------------------------------------------------------

MaxLists == 3

\* the page the cursor points at, with any nextCursor and any hasNextPage
LoosePages(c) ==
    {[HonestPage(c, named) EXCEPT !.nextCursor = n, !.hasNextPage = more] :
        named \in NamedChoices(c),
        n \in {NullCursor} \cup {CursorOf(k) : k \in 1..NumPages}, more \in BOOLEAN}

\* enumerate_dynamic_objects: the list call, answered by such a node
ListFromLooseNode ==
    /\ pc = "list"
    /\ Len(listLog) < MaxLists
    /\ \E pg \in LoosePages(cursor) :
         LET out == Call(JsonResult(pg))
         IN  /\ listLog' = Append(listLog,
                    [cursor |-> cursor, limit |-> PageLimit,
                     shape |-> ListShape(JsonResult(pg)), error |-> NoPayload])
             /\ pc' = AfterList(out)
             /\ page' = out.value
             /\ idx' = 1
    /\ UNCHANGED <<srv, cursor, results, resolvedOk, failedNames, nVisited,
                   raised, report>>
    /\ UNCHANGED clientVars
    /\ UNCHANGED pureVars
    /\ UNCHANGED externalVars

NextLoose ==
    \/ ListFromLooseNode
    \/ SkipUnnamed
    \/ ResolveChild
    \/ EndPage
    \/ Report

SpecLoose == Init /\ [][NextLoose]_vars

\* C26: walker termination. Against a node that answers every call, the
\* walker never asks for the same cursor twice, so that it ends after at
\* most one list call per cursor, and no child is returned twice; this also
\* when the node keeps answering hasNextPage = true, repeats a cursor, or
\* answers hasNextPage = true with a null nextCursor.
C26_WalkerEnds ==
    /\ \A i, j \in DOMAIN listLog : i # j => listLog[i].cursor # listLog[j].cursor
    /\ \A i, j \in DOMAIN results : i # j => results[i].name # results[j].name


\* ---------------------------------------------------------------------
\* query_bucket_tbtc with its two entry points: the list of container ids,
\* the scan of each container, the running total
\* ---------------------------------------------------------------------

MaxArgs == 2
MaxArgLen == 3
MaxPerContainer == 1

DEFAULT_BUCKET_PARENT_IDS == <<<<"0x9e3d">>, <<"0x7032">>>>

\* s.split(",")
RECURSIVE SplitComma(_)
SplitComma(s) ==
    IF \A i \in DOMAIN s : s[i] # "," THEN <<s>>
    ELSE LET i == CHOOSE i \in DOMAIN s :
                      s[i] = "," /\ \A j \in 1..(i - 1) : s[j] # ","
         IN  <<SubSeq(s, 1, i - 1)>> \o SplitComma(SubSeq(s, i + 1, Len(s)))

\* [p.strip() for p in s.split(",") if p.strip()]
StrippedParts(s) ==
    SelectSeq([i \in DOMAIN SplitComma(s) |-> Strip(SplitComma(s)[i])],
              LAMBDA part : part # <<>>)

\* the loop of _parse_parent_ids over the values of --parent-id
RECURSIVE Collect(_)
Collect(vals) ==
    IF vals = <<>> THEN <<>>
    ELSE (IF \E i \in DOMAIN Head(vals) : Head(vals)[i] = ","
             THEN StrippedParts(Head(vals))
          ELSE IF Strip(Head(vals)) # <<>> THEN <<Strip(Head(vals))>>
          ELSE <<>>)
         \o Collect(Tail(vals))

\* "unique preserve order"
RECURSIVE Uniq(_, _)
Uniq(out, seen) ==
    IF out = <<>> THEN <<>>
    ELSE IF Head(out) \in seen THEN Uniq(Tail(out), seen)
    ELSE <<Head(out)>> \o Uniq(Tail(out), seen \cup {Head(out)})

_parse_parent_ids(vals) == Uniq(Collect(vals), {})

\* main of bucket_tbtc.py
ParentIdsOfCli(vals) ==
    IF _parse_parent_ids(vals) = <<>> THEN DEFAULT_BUCKET_PARENT_IDS
    ELSE _parse_parent_ids(vals)

\* get_bucket_tbtc of api.py; the parameter is absent (<<>>) or one string
ParentIdsOfHttp(vals) ==
    IF vals = <<>> \/ Head(vals) = <<>> \/ StrippedParts(Head(vals)) = <<>>
    THEN DEFAULT_BUCKET_PARENT_IDS
    ELSE StrippedParts(Head(vals))

ParseParentIds ==
    /\ bpc = "parse"
    /\ parent_ids' = IF entry_point = "cli" THEN ParentIdsOfCli(arg_vals)
                     ELSE ParentIdsOfHttp(arg_vals)
    /\ scan' = 1
    /\ bpc' = "scan"
    /\ UNCHANGED <<entry_point, arg_vals, chain, all_entries, total_locked_raw>>
    /\ UNCHANGED <<human8, dataVars>>
    /\ UNCHANGED <<aggVars, sourceVars, fetchVars, humanVars>>
    /\ UNCHANGED walkerVars
    /\ UNCHANGED clientVars
    /\ UNCHANGED pureVars

\* picked = None, with k the name the loop over preferred_keys ended on
NotPicked == [isNone |-> TRUE, k |-> "total_reserve", n |-> 0]

ChainFor(id) == IF id \in DOMAIN chain THEN chain[id] ELSE <<>>

\* one turn of `for parent_id in parent_ids`: the matched objects of the
\* container are appended in the order the walker returned them
ScanContainer ==
    /\ bpc = "scan"
    /\ scan <= Len(parent_ids)
    /\ all_entries' = all_entries \o
            [i \in DOMAIN ChainFor(parent_ids[scan]) |->
                [parent_id |-> parent_ids[scan], object_id |-> i,
                 amounts |-> ChainFor(parent_ids[scan])[i],
                 picked_field |-> "None", picked_value_raw |-> NoSupply]]
    /\ scan' = scan + 1
    /\ UNCHANGED <<bpc, entry_point, arg_vals, parent_ids, chain, total_locked_raw>>
    /\ UNCHANGED <<human8, dataVars>>
    /\ UNCHANGED <<aggVars, sourceVars, fetchVars, humanVars>>
    /\ UNCHANGED walkerVars
    /\ UNCHANGED clientVars
    /\ UNCHANGED pureVars

preferred_keys ==
    <<"collateral", "collateral_amount", "pooled", "pool_balance", "balance",
      "amount", "reserves", "total_reserve">>

\* A mutant of Pick: the last preferred key the amounts hold.
PickLast(am) ==
    IF \A i \in DOMAIN preferred_keys : preferred_keys[i] \notin DOMAIN am THEN NotPicked
    ELSE LET i == CHOOSE i \in DOMAIN preferred_keys :
                      /\ preferred_keys[i] \in DOMAIN am
                      /\ \A j \in DOMAIN preferred_keys :
                            j > i => preferred_keys[j] \notin DOMAIN am
         IN  [isNone |-> FALSE, k |-> preferred_keys[i], n |-> am[preferred_keys[i]]]

\* `for k in preferred_keys: if isinstance(am.get(k), int): picked = am.get(k); break`
RECURSIVE PickFrom(_, _)
PickFrom(am, i) ==
    IF i > Len(preferred_keys) THEN NotPicked
    ELSE IF preferred_keys[i] \in DOMAIN am
        THEN [isNone |-> FALSE, k |-> preferred_keys[i], n |-> am[preferred_keys[i]]]
    ELSE PickFrom(am, i + 1)
Pick(am) == PickFrom(am, 1)

\* total_locked_raw after the first n entries
RECURSIVE RunningTotal(_, _)
RunningTotal(es, n) ==
    IF n = 0 THEN 0
    ELSE RunningTotal(es, n - 1)
         + (IF Pick(es[n].amounts).isNone THEN 0 ELSE Pick(es[n].amounts).n)

\* the loop over all_entries: picked_field, picked_value_raw and the total
SumLocked ==
    /\ bpc = "scan"
    /\ scan > Len(parent_ids)
    /\ all_entries' =
          [i \in DOMAIN all_entries |->
              LET picked == Pick(all_entries[i].amounts)
              IN  [all_entries[i] EXCEPT
                      !.picked_field = IF ~picked.isNone THEN picked.k ELSE "None",
                      !.picked_value_raw = [isNone |-> picked.isNone, n |-> picked.n]]]
    /\ total_locked_raw' = RunningTotal(all_entries, Len(all_entries))
    /\ bpc' = "done"
    /\ UNCHANGED <<entry_point, arg_vals, parent_ids, chain, scan>>
    /\ UNCHANGED <<human8, dataVars>>
    /\ UNCHANGED <<aggVars, sourceVars, fetchVars, humanVars>>
    /\ UNCHANGED walkerVars
    /\ UNCHANGED clientVars
    /\ UNCHANGED pureVars

NextBucket == ParseParentIds \/ ScanContainer \/ SumLocked

\* the strings of at most n tokens
ArgTokens == {"a", "b", ",", " "}
RECURSIVE ArgStrings(_)
ArgStrings(n) ==
    IF n = 0 THEN {<<>>}
    ELSE ArgStrings(n - 1)
         \cup {Append(t, x) : t \in {u \in ArgStrings(n - 1) : Len(u) = n - 1}, x \in ArgTokens}

ArgLists(n) == UNION {[1..k -> ArgStrings(MaxArgLen)] : k \in 0..n}

BucketStart ==
    /\ WalkerIdle
    /\ ClientIdle
    /\ PureIdle
    /\ AggIdle
    /\ SourceIdle
    /\ FetchIdle
    /\ HumanIdle
    /\ human8 = NoHuman8
    /\ DataIdle
    /\ bpc = "parse"
    /\ parent_ids = <<>>
    /\ scan = 0
    /\ all_entries = <<>>
    /\ total_locked_raw = 0

\* every list of --parent-id values and every parent_id parameter, each
\* container holding one matched object
OneObject == <<[balance |-> 1]>>
InitParents ==
    /\ BucketStart
    /\ entry_point \in {"cli", "http"}
    /\ arg_vals \in ArgLists(IF entry_point = "cli" THEN MaxArgs ELSE 1)
    /\ chain \in {[id \in (ArgStrings(MaxArgLen) \ {<<>>})
                          \cup {DEFAULT_BUCKET_PARENT_IDS[1], DEFAULT_BUCKET_PARENT_IDS[2]}
                     |-> OneObject]}

SpecParents == InitParents /\ [][NextBucket]_vars


\* the ids the caller named, in the order given, before any default
NamedIds ==
    IF entry_point = "cli" THEN Collect(arg_vals)
    ELSE IF arg_vals = <<>> THEN <<>>
    ELSE StrippedParts(Head(arg_vals))

FirstAt(seq, x) == CHOOSE i \in DOMAIN seq : seq[i] = x /\ \A j \in 1..(i - 1) : seq[j] # x

NoDuplicates(seq) == \A i, j \in DOMAIN seq : seq[i] = seq[j] => i = j

FirstOccurrenceOrder(seq, given) ==
    /\ {seq[i] : i \in DOMAIN seq} = {given[i] : i \in DOMAIN given}
    /\ \A i, j \in DOMAIN seq : i < j => FirstAt(given, seq[i]) < FirstAt(given, seq[j])

\* C29: in a Bucket query started from either entry point, the list of
\* container ids handed to query_bucket_tbtc has no duplicates and keeps the
\* order of first occurrence of the ids the caller named, and at the end no
\* object of a container appears twice among the entries summed into
\* locked_total_raw.
C29_NoContainerTwice ==
    /\ bpc # "parse" =>
          /\ NoDuplicates(parent_ids)
          /\ NamedIds # <<>> => FirstOccurrenceOrder(parent_ids, NamedIds)
    /\ bpc = "done" =>
          \A i, j \in DOMAIN all_entries :
              (/\ all_entries[i].parent_id = all_entries[j].parent_id
               /\ all_entries[i].object_id = all_entries[j].object_id) => i = j

\* the same statement for the command line alone
C29_CommandLineOnly == entry_point = "cli" => C29_NoContainerTwice


\* the amounts the harvester may hand over for one matched object
HarvestedKeys == {"collateral", "balance", "deposits"}
AmountValues == [collateral |-> {3}, balance |-> {0, 5}, deposits |-> {7}]
AmountMaps ==
    UNION {{am \in [ks -> 0..7] : \A k \in ks : am[k] \in AmountValues[k]} :
              ks \in SUBSET HarvestedKeys}

\* one or two containers named on the command line, each holding any matched
\* objects
InitBucketTotal ==
    /\ BucketStart
    /\ entry_point = "cli"
    /\ arg_vals \in {<<<<"a">>>>, <<<<"a">>, <<"b">>>>, <<<<"b", ",", "a">>>>}
    /\ chain \in [{<<"a">>, <<"b">>} ->
                     UNION {[1..n -> AmountMaps] : n \in 0..MaxPerContainer}]

SpecBucketTotal == InitBucketTotal /\ [][NextBucket]_vars

\* the amounts of the matched objects of the first n containers scanned
RECURSIVE Matched(_)
Matched(n) == IF n = 0 THEN <<>> ELSE Matched(n - 1) \o ChainFor(parent_ids[n])

PreferredIn(am) == {i \in DOMAIN preferred_keys : preferred_keys[i] \in DOMAIN am}
FirstPreferred(am) ==
    preferred_keys[CHOOSE i \in PreferredIn(am) : \A j \in PreferredIn(am) : i <= j]

ValueOf(e) == IF e.picked_value_raw.isNone THEN 0 ELSE e.picked_value_raw.n

RECURSIVE SumOfValues(_)
SumOfValues(es) == IF es = <<>> THEN 0 ELSE ValueOf(Head(es)) + SumOfValues(Tail(es))

\* C24: when the Bucket query has summed its entries, the entries are the
\* matched objects of all scanned containers in scan order; each entry with a
\* preferred key in its amounts has picked_field equal to the first such key
\* of the preferred order and picked_value_raw equal to its harvested value;
\* an entry with none has both null; picked_field is null exactly when
\* picked_value_raw is; and locked_total_raw is the sum of the picked values,
\* a null one counting 0.
C24_RunningTotal ==
    bpc = "done" =>
        /\ [i \in DOMAIN all_entries |-> all_entries[i].amounts] = Matched(Len(parent_ids))
        /\ \A i \in DOMAIN all_entries :
              LET e == all_entries[i]
              IN  /\ (e.picked_field = "None") <=> e.picked_value_raw.isNone
                  /\ IF PreferredIn(e.amounts) = {}
                        THEN e.picked_field = "None"
                        ELSE /\ e.picked_field = FirstPreferred(e.amounts)
                             /\ e.picked_value_raw =
                                   [isNone |-> FALSE, n |-> e.amounts[e.picked_field]]
        /\ total_locked_raw = SumOfValues(all_entries)

\* two containers scanned; one entry holds two preferred keys, another none,
\* and the total is not zero
C24_Witness ==
    /\ bpc = "done"
    /\ Len(parent_ids) = 2
    /\ \E i, j \in DOMAIN all_entries :
          /\ all_entries[i].parent_id # all_entries[j].parent_id
          /\ {"collateral", "balance"} \subseteq DOMAIN all_entries[i].amounts
          /\ all_entries[i].picked_field = "collateral"
          /\ DOMAIN all_entries[j].amounts = {"deposits"}
          /\ all_entries[j].picked_field = "None"
    /\ total_locked_raw = 3


\* ---------------------------------------------------------------------
\* The *_human8 fields of the reports
\* ---------------------------------------------------------------------

\* f"{x / 10**8:.8f}" for a raw amount below 2^53: eight places, always
Fixed8(x) == StrOf(x \div 10 ^ 8) \o <<".">> \o rjust(StrOf(x % 10 ^ 8), 8, "0")

\* str(x / 10**8), the shortest text that reads back as the same float:
\* "0.0" for zero, exponent form below 1e-04, and at least one place after
\* the point otherwise
FloatStr(x) ==
    IF x = 0 THEN <<"0", ".", "0">>
    ELSE IF x < 10 ^ 4
        THEN LET m == rstrip(StrOf(x), "0")
             IN  <<Head(m)>> \o (IF Len(m) > 1 THEN <<".">> \o Tail(m) ELSE <<>>)
                 \o <<"e", "-">> \o rjust(StrOf(9 - Len(StrOf(x))), 2, "0")
    ELSE LET f == rstrip(rjust(StrOf(x % 10 ^ 8), 8, "0"), "0")
         IN  StrOf(x \div 10 ^ 8) \o <<".">> \o (IF f # <<>> THEN f ELSE <<"0">>)

Unwritten(section) ==
    /\ hphase # "idle"
    /\ human8[section] = <<>>
    /\ UNCHANGED <<hphase, amount, decimals, human>>
    /\ UNCHANGED <<dataVars, bucketVars>>
    /\ UNCHANGED <<aggVars, sourceVars, fetchVars>>
    /\ UNCHANGED walkerVars
    /\ UNCHANGED clientVars
    /\ UNCHANGED pureVars

\* bucket.locked_total_human8
ReportBucketHuman8 ==
    /\ Unwritten("bucket")
    /\ human8' = [human8 EXCEPT !.bucket = Fixed8(amount)]

\* percent_estimates.balance_holding_human8
ReportAlphaLendHuman8 ==
    /\ Unwritten("alphalend")
    /\ human8' = [human8 EXCEPT !.alphalend = FloatStr(amount)]

\* balance_holding_human8 and borrowed_amount_human8 of the HTTP responses
ReportApiHuman8 ==
    /\ Unwritten("api")
    /\ human8' = [human8 EXCEPT !.api = Fixed8(amount)]

InitHuman8 ==
    /\ WalkerIdle
    /\ ClientIdle
    /\ PureIdle
    /\ AggIdle
    /\ SourceIdle
    /\ FetchIdle
    /\ DataIdle
    /\ BucketIdle
    /\ human8 = NoHuman8
    /\ hphase = "input"
    /\ amount \in 0..MaxAmount
    /\ decimals = 8
    /\ human = <<>>

NextHuman8 == Humanize \/ ReportBucketHuman8 \/ ReportAlphaLendHuman8 \/ ReportApiHuman8

SpecHuman8 == InitHuman8 /\ [][NextHuman8]_vars

SameAsHumanizer(section) ==
    (hphase = "humanized" /\ human8[section] # <<>>) => human8[section] = human

\* C25: every *_human8 string written to a report (Bucket locked_total_human8,
\* AlphaLend balance_holding_human8, the HTTP responses' *_human8) equals the
\* string humanize_amount returns for the same raw integer with 8 decimals.
C25_Human8IsHumanized ==
    /\ SameAsHumanizer("bucket")
    /\ SameAsHumanizer("alphalend")
    /\ SameAsHumanizer("api")


\* ---------------------------------------------------------------------
\* fetch_tbtc_data of app.py
\* ---------------------------------------------------------------------

MaxSupply == 2

\* What a call of the client ends in, by the node's answer: "raises" is any
\* answer on which _call raises SuiRPCError, the others are results _call
\* returns.
Returns == "none"

get_coin_metadata(answer) ==
    CASE answer \in {"raises", "null"} -> "SuiRPCError"
      [] answer = "not_a_mapping" -> "AttributeError"
      [] answer = "bad_number" -> "ValueError"
      [] OTHER -> Returns

\* get_total_supply and get_balance have the same body, with "value" and
\* "totalBalance"
get_total_supply(answer) ==
    CASE answer \in {"raises", "null", "not_a_mapping", "no_value"} -> "SuiRPCError"
      [] answer = "bad_number" -> "ValueError"
      [] OTHER -> Returns

get_balance(answer) == get_total_supply(answer)

MetadataAnswers == {"raises", "null", "not_a_mapping", "bad_number", "ok"}
AmountAnswers == {"raises", "null", "not_a_mapping", "no_value", "bad_number", "ok"}

DataOthersUnchanged ==
    /\ UNCHANGED <<human8, bucketVars>>
    /\ UNCHANGED <<aggVars, fetchVars, humanVars>>
    /\ UNCHANGED <<hasKey, lastError, tbtc_global>>
    /\ UNCHANGED walkerVars
    /\ UNCHANGED clientVars
    /\ UNCHANGED pureVars

DataRaises(exc) ==
    /\ dpc' = "raised"
    /\ tbtc_data' = [tbtc_data EXCEPT !.kind = "raised", !.error = exc]

\* where the function goes after the fallback block
AfterFallback(data) ==
    IF owner
    THEN /\ dpc' = "balance"
         /\ tbtc_data' = data
    ELSE /\ dpc' = "done"
         /\ tbtc_data' = [data EXCEPT !.kind = "returned"]

GetCoinMetadata ==
    /\ dpc = "metadata"
    /\ \E answer \in MetadataAnswers :
          /\ answers' = [answers EXCEPT !.metadata = answer]
          /\ IF get_coin_metadata(answer) # Returns
             THEN DataRaises(get_coin_metadata(answer))
             ELSE dpc' = "supply" /\ UNCHANGED tbtc_data
    /\ UNCHANGED <<owner, allow_fallback, total_supply, requests>>
    /\ DataOthersUnchanged

\* the try around get_total_supply, the result with its total_supply
\* section, and the test that opens the fallback block
GetTotalSupply ==
    /\ dpc = "supply"
    /\ \E answer \in AmountAnswers, n \in 0..MaxSupply :
          /\ answers' = [answers EXCEPT !.supply = answer]
          /\ IF get_total_supply(answer) = Returns
             THEN /\ total_supply' = [isNone |-> FALSE, n |-> n]
                  /\ AfterFallback([tbtc_data EXCEPT !.kind = "report",
                                                     !.total_supply_status = "ok"])
             ELSE IF get_total_supply(answer) = "SuiRPCError"
             THEN /\ UNCHANGED total_supply
                  /\ LET data == [tbtc_data EXCEPT !.kind = "report",
                                                   !.total_supply_status = "unavailable",
                                                   !.total_supply_error = answer]
                     IN  IF allow_fallback
                         THEN dpc' = "fallback" /\ tbtc_data' = data
                         ELSE AfterFallback(data)
             ELSE /\ UNCHANGED total_supply
                  /\ DataRaises(get_total_supply(answer))
    /\ UNCHANGED <<owner, allow_fallback, requests>>
    /\ DataOthersUnchanged

\* fetch_blockberry_tbtc of app.py inside `try ... except Exception`
SupplyFallback ==
    /\ dpc = "fallback"
    /\ IF ~hasKey
       THEN /\ UNCHANGED requests
            /\ answers' = [answers EXCEPT !.fallback = "no_key"]
            /\ AfterFallback([tbtc_data EXCEPT !.supply_fallback = "unavailable"])
       ELSE /\ requests' = Append(requests, "blockberry")
            /\ \E answer \in {"raises", "not_a_mapping", "ok"} :
                  /\ answers' = [answers EXCEPT !.fallback = answer]
                  /\ AfterFallback([tbtc_data EXCEPT !.supply_fallback =
                                        IF answer = "ok" THEN "ok" ELSE "unavailable"])
    /\ UNCHANGED <<owner, allow_fallback, total_supply>>
    /\ DataOthersUnchanged

GetBalance ==
    /\ dpc = "balance"
    /\ \E answer \in AmountAnswers :
          /\ answers' = [answers EXCEPT !.balance = answer]
          /\ IF get_balance(answer) = Returns
             THEN /\ dpc' = "done"
                  /\ tbtc_data' = [tbtc_data EXCEPT !.kind = "returned",
                                                    !.owner_balance = TRUE]
             ELSE IF get_balance(answer) = "SuiRPCError"
             THEN /\ dpc' = "done"
                  /\ tbtc_data' = [tbtc_data EXCEPT !.kind = "returned",
                                                    !.owner_balance_error = answer]
             ELSE DataRaises(get_balance(answer))
    /\ UNCHANGED <<owner, allow_fallback, total_supply, requests>>
    /\ DataOthersUnchanged

InitData ==
    /\ WalkerIdle
    /\ ClientIdle
    /\ PureIdle
    /\ AggIdle
    /\ FetchIdle
    /\ HumanIdle
    /\ BucketIdle
    /\ human8 = NoHuman8
    /\ hasKey \in BOOLEAN
    /\ requests = <<>>
    /\ lastError = NoError
    /\ tbtc_global = NoSection
    /\ dpc = "metadata"
    /\ owner \in BOOLEAN
    /\ allow_fallback \in BOOLEAN
    /\ total_supply = NoSupply
    /\ tbtc_data = NoData
    /\ answers = NoAnswers

NextData == GetCoinMetadata \/ GetTotalSupply \/ SupplyFallback \/ GetBalance

SpecData == InitData /\ [][NextData]_vars

Failed(call) == answers[call] \notin {"none", "ok"}

\* C30: in fetch_tbtc_data the query is aborted exactly when the metadata
\* call failed, and then with the RPC error; a failed total-supply call
\* leaves total_supply.status "unavailable" with the error and a failed
\* owner-balance call leaves owner_balance_error; the returned report has a
\* supply_fallback section exactly when the total supply is unavailable and
\* fallback is allowed; and no external source is contacted when the
\* on-chain total supply was obtained.
C30_FailuresAbsorbed ==
    /\ Failed("metadata") => tbtc_data.kind = "raised" /\ tbtc_data.error = "SuiRPCError"
    /\ tbtc_data.kind = "raised" => Failed("metadata")
    /\ Failed("supply") =>
          /\ tbtc_data.total_supply_status = "unavailable"
          /\ tbtc_data.total_supply_error # "none"
    /\ Failed("balance") => tbtc_data.owner_balance_error # "none"
    /\ tbtc_data.kind = "returned" =>
          (tbtc_data.supply_fallback # "none"
              <=> (tbtc_data.total_supply_status = "unavailable" /\ allow_fallback))
    /\ ~total_supply.isNone => requests = <<>>

\* the same statement when every failure is one _call reports as SuiRPCError
\* or the client reports as an unexpected format
RpcFailuresOnly == \A call \in {"metadata", "supply", "balance"} : answers[call] # "bad_number"
C30_RpcFailuresOnly ==
    (RpcFailuresOnly /\ answers.metadata # "not_a_mapping") => C30_FailuresAbsorbed

====
